---- MODULE Spec2Model ----
(***************************************************************************)
(* Invoice processing service: text acquisition (PDFProcessor), the       *)
(* request handlers process_invoice / process_image, and the field        *)
(* cascade InvoiceDataExtractor._extract_field.                           *)
(*                                                                         *)
(* A text is modelled by what the code reads of it: its length (raw) and  *)
(* the length of text.strip() (trim).  Python's truthiness `if text` is   *)
(* raw > 0; None and "" are both falsy and are both the text of raw 0.    *)
(***************************************************************************)
EXTENDS Integers, Sequences, FiniteSets, TLC

\* ------------------------------------------------------------------ bounds
MaxPages == 2
MaxLines == 3
MaxGroups == 2
MaxCalls == 3
MaxRequests == 2
MaxUsers == 2
MaxRounds == 2

\* ------------------------------------------------- constants of the program
PageTextMin == 50
AggregateMin == 100
OcrAcceptLen == 50
OcrFallbackLen == 10
ImageUsableLen == 10
InvoiceNumberMax == 10
NameMin == 3
CombineMax == 100
NameLenMin == 5
SimpleNameMin == 10
LooseAmountsMin == 3
PotentialNumbers == 3
HeuristicNameMin == 3
DescMin == 10
AmountBodyMin == 3

\* ------------------------------------------------------------------- texts
Text(raw, trim) == [raw |-> raw, trim |-> trim]
EmptyText == Text(0, 0)
Truthy(t) == t.raw > 0

\* What a native reader's page.extract_text() can give: nothing (None or ""),
\* a text at the page bar, just over it, and one as long as the aggregate bar.
NativeTexts ==
  { EmptyText,
    Text(PageTextMin, PageTextMin),
    Text(PageTextMin + 1, PageTextMin + 1),
    Text(AggregateMin, AggregateMin) }

\* What pytesseract.image_to_string can give: "", whitespace only, and texts
\* on both sides of the two bars the code tests (a trailing newline is kept
\* in raw).
OcrTexts ==
  { EmptyText,
    Text(2, 0),
    Text(OcrFallbackLen, OcrFallbackLen - 1),
    Text(OcrFallbackLen + 1, OcrFallbackLen),
    Text(OcrAcceptLen + 1, OcrAcceptLen),
    Text(OcrAcceptLen + 2, OcrAcceptLen + 1) }

\* A recognizer call either raises or returns a text.
Outcomes ==
  { [raised |-> TRUE, text |-> EmptyText] } \cup
  { [raised |-> FALSE, text |-> t] : t \in OcrTexts }

PsmModes == <<6, 11, 12>>
Readers == {"pdfplumber", "PyPDF2"}

VARIABLES
  kind,               \* "none" | "pdf" | "image": the request being served
  user_id,            \* the request's user_id (0: not given)
  pc,                 \* position of the request handler
  npages,             \* pages of the uploaded PDF
  stage,              \* extract_text: "pdfplumber" | "PyPDF2" | "full" | "off"
  page_num,           \* the page the current pass is at
  full_text,          \* the pass's list of page entries
  total_text_length,  \* the pass's running aggregate of trimmed lengths
  native_seen,        \* the native text the current pass read, per page
  ocr_pages,          \* pages given to per-page OCR in the current pass
  ocr_ctx,            \* who called OCR: "page" | "full" | "image" | "none"
  ocr_pc,             \* "idle" | "prep" | "loop" | "fallback" | "ret"
  psm_idx,            \* index into PsmModes of the next configuration
  text,               \* the OCR routine's local `text`
  ocr_calls,          \* recognizer calls of this OCR invocation, in order
  text_out,           \* what extract_text / extract_text_from_image returned
  ret_by,             \* which path produced text_out
  extracted,          \* extract_invoice_data was run for this request
  response,           \* "none" | "ok" | "fail400" | "fail500"
  db,                 \* Invoice rows added
  fpc,                \* extractor: "new" | "ready" | "scan" | "returned"
  use_ml_validation,  \* InvoiceDataExtractor.use_ml_validation
  ml_classifier,      \* InvoiceDataExtractor.ml_classifier is not None
  field_name,         \* _extract_field: the field asked for
  pattern_idx,        \* _extract_field: index of the next pattern
  cand,               \* what re.search gave for the last pattern evaluated
  nested,             \* what the nested pattern list gave, when it was used
  vout,               \* what the validator gave, when it was called
  verdict,            \* how the last pattern evaluated ended
  value,              \* what _extract_field returned
  rec_pc,             \* extract_invoice_data: "idle" | "building" | "returned",
                      \* "raised" by a section builder, "saved" by the handler
  built,              \* extract_invoice_data: how many sections are built
  result,             \* extract_invoice_data: the dictionary under construction
  record,             \* what extract_invoice_data returned
  invoice,            \* the Invoice row the handler added for the record
  ipc,                \* _extract_items: "idle" | "scan" | "done" | "returned"
  lines,              \* _extract_items: text.split('\n')
  cursor,             \* _extract_items: i, the index of the line visited, from 1
  in_items_section,   \* _extract_items: the section flag
  combined,           \* _extract_items: how many following lines combined_line took
  items,              \* _extract_items: the items appended
  line_items,         \* what _extract_line_items_structured returned
  spc,                \* _build_financial_summary: "idle" | "total" | "currency" | "done"
  capture,            \* the text the total pattern captured, none or one
  doc_currency,       \* the currency markers of the text
  summary,            \* the summary dictionary
  extractions,        \* the extract_invoice_data calls made on the instance
  upc,                \* upload request: where its coroutine is
  fname,              \* upload request: file.filename
  files,              \* uploads/: the inode linked at each name, 0 for none
  inodes,             \* the bytes each inode holds: 0 for none, or the
                      \* number of the request whose content they are
  handle,             \* upload request: the inode out_file is open on
  loop,               \* the request whose coroutine runs on the event loop
                      \* thread, 0 when the loop is free
  got,                \* upload request: what the extraction read at file_path
  answer,             \* upload request: the response
  health,             \* GET /health: "none" | "pending" | "served"
  sched_pc,           \* run_scheduler: "new" | "head" | "sleeping" | "round" |
                      \* "backoff" | "returned"
  running,            \* NotificationScheduler.running
  rounds,             \* how many rounds were started
  settings,           \* the user_settings row of each user
  due,                \* whether get_pending_invoices finds an invoice of the user
  session,            \* the round's db session: "none" | "open" | "closed"
  user_ids,           \* the round's list of users
  upos,               \* the round's position in user_ids
  sent                \* the last reminder sent

reqVars == <<kind, user_id, pc, npages>>
passVars == <<stage, page_num, full_text, total_text_length, native_seen, ocr_pages>>
ocrVars == <<ocr_ctx, ocr_pc, psm_idx, text, ocr_calls>>
outVars == <<text_out, ret_by, extracted, response, db>>
acqVars == <<reqVars, passVars, ocrVars, outVars>>
fieldVars ==
  <<fpc, use_ml_validation, ml_classifier, field_name, pattern_idx,
    cand, nested, vout, verdict, value>>
recVars == <<rec_pc, built, result, record, invoice>>
itemVars == <<ipc, lines, cursor, in_items_section, combined, items, line_items>>
sumVars == <<spc, capture, doc_currency, summary>>
callVars == <<extractions>>
upVars == <<upc, fname, files, inodes, handle, loop, got, answer, health>>
schedVars == <<sched_pc, running, rounds, settings, due, session, user_ids, upos, sent>>
extraVars == <<sumVars, callVars, upVars, schedVars>>
docVars == <<recVars, itemVars, extraVars>>
besideSum == <<acqVars, fieldVars, recVars, itemVars, callVars, upVars, schedVars>>
besideCalls == <<acqVars, recVars, itemVars, sumVars, upVars, schedVars>>
besideUploads == <<acqVars, fieldVars, recVars, itemVars, sumVars, callVars, schedVars>>
besideScheduler == <<acqVars, fieldVars, recVars, itemVars, sumVars, callVars, upVars>>
vars == <<acqVars, fieldVars, docVars>>

\* The upload requests in flight, and the names a client can give its file.
Requests == 1..MaxRequests
Names == {"a.pdf", "b.pdf", "c.txt"}

\* What the extraction found at file_path: nothing yet, no file, or a file
\* with the bytes of a request (0: an empty file).
NotRead == [read |-> FALSE, found |-> FALSE, bytes |-> 0]
Missing == [read |-> TRUE, found |-> FALSE, bytes |-> 0]
Found(b) == [read |-> TRUE, found |-> TRUE, bytes |-> b]

\* The users, and the user_settings row of a user: none yet, or a row with
\* its notifications_enabled.
Users == 1..MaxUsers
NoSettings == [row |-> FALSE, notifications_enabled |-> 1]
Settings(v) == [row |-> TRUE, notifications_enabled |-> v]

\* A reminder: whom it went to, and what the user's notifications_enabled
\* and pending invoices were when it was sent.
NoReminder == [user_id |-> 0, notifications_enabled |-> 1, pending |-> TRUE]
Reminder(u, v, p) == [user_id |-> u, notifications_enabled |-> v, pending |-> p]

NoNative == [p \in 1..0 |-> EmptyText]

\* A text without a currency marker.
NoMarkers == [pre |-> "none", rub |-> "none", usd |-> "none", eur |-> "none"]

\* The empty dictionary.
NoKeys == [k \in {} |-> 0]

\* re.search found nothing / match.group(1) of what it found.
\* `across`: the other party's anchor keyword lies between the pattern's
\* anchor and the captured span.
NoMatch == [hit |-> FALSE, s |-> <<>>, across |-> FALSE]
Match(s) == [hit |-> TRUE, s |-> s, across |-> FALSE]
Across(s) == [hit |-> TRUE, s |-> s, across |-> TRUE]

\* _extract_field's `return None` / `return value`.
None == [some |-> FALSE, s |-> <<>>]
Some(s) == [some |-> TRUE, s |-> s]

\* validate_extraction was not called / raised / returned
\* (is_valid, confidence), the confidence in tenths.
NotCalled == [called |-> FALSE, raised |-> FALSE, is_valid |-> TRUE, confidence |-> 0]
Raised == [called |-> TRUE, raised |-> TRUE, is_valid |-> TRUE, confidence |-> 0]
Validated(ok, c) == [called |-> TRUE, raised |-> FALSE, is_valid |-> ok, confidence |-> c]

Init ==
  /\ kind = "none" /\ user_id = 0 /\ pc = "idle" /\ npages = 0
  /\ stage = "off" /\ page_num = 0 /\ full_text = <<>>
  /\ total_text_length = 0 /\ native_seen = NoNative /\ ocr_pages = <<>>
  /\ ocr_ctx = "none" /\ ocr_pc = "idle" /\ psm_idx = 0
  /\ text = EmptyText /\ ocr_calls = <<>>
  /\ text_out = <<>> /\ ret_by = "none" /\ extracted = FALSE
  /\ response = "none" /\ db = <<>>
  /\ fpc = "new" /\ use_ml_validation = FALSE /\ ml_classifier = FALSE
  /\ field_name = "none" /\ pattern_idx = 0
  /\ cand = NoMatch /\ nested = NoMatch /\ vout = NotCalled
  /\ verdict = "none" /\ value = None
  /\ rec_pc = "idle" /\ built = 0 /\ result = NoKeys /\ record = NoKeys
  /\ invoice = NoKeys
  /\ ipc = "idle" /\ lines = <<>> /\ cursor = 0 /\ in_items_section = FALSE
  /\ combined = 0 /\ items = <<>> /\ line_items = <<>>
  /\ spc = "idle" /\ capture = <<>> /\ doc_currency = NoMarkers
  /\ summary = NoKeys
  /\ extractions = <<>>
  /\ upc = [r \in Requests |-> "new"]
  /\ fname = [r \in Requests |-> "none"]
  /\ files = [n \in Names |-> 0]
  /\ inodes = [r \in Requests |-> 0]
  /\ handle = [r \in Requests |-> 0]
  /\ loop = 0
  /\ got = [r \in Requests |-> NotRead]
  /\ answer = [r \in Requests |-> "none"]
  /\ health = "none"
  /\ sched_pc = "new" /\ running = FALSE /\ rounds = 0
  /\ settings = [u \in Users |-> NoSettings]
  /\ due = [u \in Users |-> FALSE]
  /\ session = "none" /\ user_ids = <<>> /\ upos = 1
  /\ sent = NoReminder

\* ------------------------------------------------------- page entries
\* f"--- Страница {page_num} ---\n{text}\n": the header, then the page's text.
Entry(p, src, t) == [page |-> p, src |-> src, text |-> t]

\* "\n".join(full_text) is "" exactly when the list is empty: every entry
\* starts with a non-blank header.
IsEmptyString(entries) == entries = <<>>

\* ------------------------------------------------------- OCR routine
\* The locals at the top of the PSM loop: text = "", first configuration.
OcrEnter(ctx) ==
  /\ ocr_ctx' = ctx
  /\ ocr_pc' = "prep"
  /\ psm_idx' = 1
  /\ text' = EmptyText
  /\ ocr_calls' = <<>>

OcrLeave ==
  /\ ocr_ctx' = "none"
  /\ ocr_pc' = "idle"
  /\ psm_idx' = 0
  /\ text' = EmptyText
  /\ ocr_calls' = <<>>

Call(img, psm, o) == [img |-> img, psm |-> psm, raised |-> o.raised, text |-> o.text]

\* Mutant of Accepts: the bar is met at 50 characters already.
Accepts_AtBar(t) == t.trim >= OcrAcceptLen

\* len(text.strip()) > 50: the configuration's result is taken, break.
Accepts(t) == t.trim > OcrAcceptLen

\* Mutant of NeedsFallback: a text of exactly 10 characters is retried too.
NeedsFallback_AtBar(t) == ~Truthy(t) \/ t.trim <= OcrFallbackLen

\* not text or len(text.strip()) < 10
NeedsFallback(t) == ~Truthy(t) \/ t.trim < OcrFallbackLen

\* ------------------------------------------------------- extract_text
\* Mutant of PageAccepted: a page of exactly 50 characters is taken.
PageAccepted_AtBar(t) == Truthy(t) /\ t.trim >= PageTextMin

\* text and len(text.strip()) > 50: the page's native text is taken.
PageAccepted(t) == Truthy(t) /\ t.trim > PageTextMin

\* Mutant of PassReturns: an aggregate of exactly 100 is returned.
PassReturns_AtBar(entries, total) == ~IsEmptyString(entries) /\ total >= AggregateMin

\* result.strip() and total_text_length > 100: the pass's result is returned.
PassReturns(entries, total) == ~IsEmptyString(entries) /\ total > AggregateMin

\* if text: full_text.append(...); the entry is added only for a truthy text.
Appended(entries, p, src, t) ==
  IF Truthy(t) THEN Append(entries, Entry(p, src, t)) ELSE entries

StartPass(s) ==
  /\ stage' = s
  /\ page_num' = 1
  /\ full_text' = <<>>
  /\ total_text_length' = 0
  /\ native_seen' = <<>>
  /\ ocr_pages' = <<>>

\* After pdfplumber comes PyPDF2, after PyPDF2 the whole-document OCR.
NextStage == StartPass(IF stage = "pdfplumber" THEN "PyPDF2" ELSE "full")

\* extract_text has its result: back in the request handler.
Return(entries, by) ==
  /\ text_out' = entries
  /\ ret_by' = by
  /\ pc' = "got_text"

\* POST /process-invoice with a .pdf file of n pages.
ProcessInvoice(n, u) ==
  /\ pc = "idle"
  /\ kind' = "pdf" /\ user_id' = u /\ npages' = n
  /\ pc' = "extract_text"
  /\ StartPass("pdfplumber")
  /\ UNCHANGED <<ocrVars, outVars>>
  /\ UNCHANGED <<fieldVars, docVars>>

\* One iteration of `for page_num, page in enumerate(pages, 1)` of a native
\* reader: the page's text is taken, or the page goes to per-page OCR.
ReadNativePage(t) ==
  /\ pc = "extract_text" /\ stage \in Readers /\ ocr_pc = "idle"
  /\ page_num <= npages
  /\ native_seen' = Append(native_seen, t)
  /\ IF PageAccepted(t)
       THEN /\ full_text' = Append(full_text, Entry(page_num, "native", t))
            /\ total_text_length' = total_text_length + t.trim
            /\ page_num' = page_num + 1
            /\ UNCHANGED <<ocr_pages, ocrVars>>
       ELSE /\ OcrEnter("page")
            /\ UNCHANGED <<full_text, total_text_length, page_num, ocr_pages>>
  /\ UNCHANGED <<reqVars, stage, outVars>>
  /\ UNCHANGED <<fieldVars, docVars>>

\* The reader raises (open or page.extract_text): the except prints, and the
\* next strategy starts from empty lists.
ReaderRaises ==
  /\ pc = "extract_text" /\ stage \in Readers /\ ocr_pc = "idle"
  /\ page_num <= npages
  /\ NextStage
  /\ UNCHANGED <<reqVars, ocrVars, outVars>>
  /\ UNCHANGED <<fieldVars, docVars>>

\* After the last page: return the joined pass, or fall to the next strategy.
EndPass ==
  /\ pc = "extract_text" /\ stage \in Readers /\ ocr_pc = "idle"
  /\ page_num = npages + 1
  /\ IF PassReturns(full_text, total_text_length)
       THEN /\ Return(full_text, stage)
            /\ UNCHANGED <<kind, user_id, npages, passVars, extracted, response, db>>
       ELSE /\ NextStage
            /\ UNCHANGED <<reqVars, outVars>>
  /\ UNCHANGED ocrVars
  /\ UNCHANGED <<fieldVars, docVars>>

\* _extract_text_with_ocr_full: one iteration of `for page_num, img in ...`.
FullOcrNextPage ==
  /\ pc = "extract_text" /\ stage = "full" /\ ocr_pc = "idle"
  /\ page_num <= npages
  /\ OcrEnter("full")
  /\ UNCHANGED <<reqVars, passVars, outVars>>
  /\ UNCHANGED <<fieldVars, docVars>>

\* return "\n".join(full_text)
FullOcrEnd ==
  /\ pc = "extract_text" /\ stage = "full" /\ ocr_pc = "idle"
  /\ page_num = npages + 1
  /\ Return(full_text, "full")
  /\ UNCHANGED <<kind, user_id, npages, passVars, ocrVars, extracted, response, db>>
  /\ UNCHANGED <<fieldVars, docVars>>

\* POST /process-image with an image file.
ProcessImage(u) ==
  /\ pc = "idle"
  /\ kind' = "image" /\ user_id' = u /\ npages' = 1
  /\ pc' = "ocr_image"
  /\ OcrEnter("image")
  /\ UNCHANGED <<passVars, outVars>>
  /\ UNCHANGED <<fieldVars, docVars>>

\* ------------------------------------------------------- OCR steps
\* Rasterization and preprocessing, before the PSM loop.  When they raise
\* (or no image comes back) the per-page routine returns "", the
\* whole-document routine returns "" for the document, and
\* extract_text_from_image raises to process_image.
OcrPrepare(ok) ==
  /\ ocr_pc = "prep"
  /\ IF ok
       THEN /\ ocr_pc' = "loop"
            /\ UNCHANGED <<ocr_ctx, psm_idx, text, ocr_calls>>
            /\ UNCHANGED <<reqVars, passVars, outVars>>
       ELSE /\ OcrLeave
            /\ CASE ocr_ctx = "page" ->
                      /\ ocr_pages' = Append(ocr_pages, [page |-> page_num, out |-> EmptyText])
                      /\ page_num' = page_num + 1
                      /\ UNCHANGED <<stage, full_text, total_text_length, native_seen>>
                      /\ UNCHANGED <<reqVars, outVars>>
                 [] ocr_ctx = "full" ->
                      /\ Return(<<>>, "full")
                      /\ UNCHANGED <<kind, user_id, npages, passVars, extracted, response, db>>
                 [] OTHER ->
                      /\ pc' = "done"
                      /\ response' = "fail500"
                      /\ UNCHANGED <<kind, user_id, npages, passVars>>
                      /\ UNCHANGED <<text_out, ret_by, extracted, db>>
  /\ UNCHANGED <<fieldVars, docVars>>

\* One iteration of `for psm_mode in [6, 11, 12]` on the preprocessed bitmap.
OcrTryPsm(o) ==
  /\ ocr_pc = "loop"
  /\ ocr_calls' = Append(ocr_calls, Call("processed", PsmModes[psm_idx], o))
  /\ text' = IF o.raised THEN text ELSE o.text
  /\ LET broke == ~o.raised /\ Accepts(o.text)
     IN /\ ocr_pc' = IF broke \/ psm_idx = Len(PsmModes) THEN "fallback" ELSE "loop"
        /\ psm_idx' = IF broke THEN psm_idx ELSE psm_idx + 1
  /\ UNCHANGED <<ocr_ctx, reqVars, passVars, outVars>>
  /\ UNCHANGED <<fieldVars, docVars>>

\* The fallback on the original bitmap with --psm 6.
OcrFallbackRaw(o) ==
  /\ ocr_pc = "fallback"
  /\ NeedsFallback(text)
  /\ ocr_calls' = Append(ocr_calls, Call("raw", PsmModes[1], o))
  /\ text' = IF o.raised THEN text ELSE o.text
  /\ ocr_pc' = "ret"
  /\ UNCHANGED <<ocr_ctx, psm_idx, reqVars, passVars, outVars>>
  /\ UNCHANGED <<fieldVars, docVars>>

OcrFallbackSkip ==
  /\ ocr_pc = "fallback"
  /\ ~NeedsFallback(text)
  /\ ocr_pc' = "ret"
  /\ UNCHANGED <<ocr_ctx, psm_idx, text, ocr_calls, reqVars, passVars, outVars>>
  /\ UNCHANGED <<fieldVars, docVars>>

\* return text if text else "": what the routine hands back.
OcrResult(t) == IF Truthy(t) THEN t ELSE EmptyText

\* The routine returns to its caller, which appends a truthy text.
OcrReturn ==
  /\ ocr_pc = "ret"
  /\ OcrLeave
  /\ CASE ocr_ctx = "page" ->
            /\ ocr_pages' = Append(ocr_pages, [page |-> page_num, out |-> OcrResult(text)])
            /\ full_text' = Appended(full_text, page_num, "ocr", OcrResult(text))
            /\ total_text_length' =
                 IF Truthy(OcrResult(text)) THEN total_text_length + text.trim
                 ELSE total_text_length
            /\ page_num' = page_num + 1
            /\ UNCHANGED <<stage, native_seen, reqVars, outVars>>
       [] ocr_ctx = "full" ->
            /\ full_text' = Appended(full_text, page_num, "ocr", text)
            /\ page_num' = page_num + 1
            /\ UNCHANGED <<stage, total_text_length, native_seen, ocr_pages>>
            /\ UNCHANGED <<reqVars, outVars>>
       [] OTHER ->
            /\ Return(<<Entry(0, "ocr", OcrResult(text))>>, "image")
            /\ UNCHANGED <<kind, user_id, npages, passVars, extracted, response, db>>
  /\ UNCHANGED <<fieldVars, docVars>>

\* ------------------------------------------------------- request handlers
\* The text of an uploaded image, as extract_text_from_image returned it.
ImageText == text_out[1].text

\* Mutant of Unreadable: the image handler tests emptiness only, as the PDF
\* handler does.
Unreadable_EmptyOnly ==
  IF kind = "pdf" THEN IsEmptyString(text_out) ELSE ~Truthy(ImageText)

\* process_invoice: `if not text`; process_image: `if not text or
\* len(text.strip()) < 10`.
Unreadable ==
  IF kind = "pdf" THEN IsEmptyString(text_out)
  ELSE ~Truthy(ImageText) \/ ImageText.trim < ImageUsableLen

\* The check of the acquired text: a 400 response, or on to the extraction.
CheckText ==
  /\ pc = "got_text"
  /\ IF Unreadable
       THEN pc' = "done" /\ response' = "fail400"
       ELSE pc' = "extract_data" /\ UNCHANGED response
  /\ UNCHANGED <<kind, user_id, npages, passVars, ocrVars, text_out, ret_by, extracted, db>>
  /\ UNCHANGED <<fieldVars, docVars>>

\* structured_data = data_extractor.extract_invoice_data(text, ...); an
\* exception anywhere in the try block ends in the 500 response.
ExtractData(ok) ==
  /\ pc = "extract_data"
  /\ IF ok
       THEN pc' = "persist" /\ extracted' = TRUE /\ UNCHANGED response
       ELSE pc' = "done" /\ response' = "fail500" /\ UNCHANGED extracted
  /\ UNCHANGED <<kind, user_id, npages, passVars, ocrVars, text_out, ret_by, db>>
  /\ UNCHANGED <<fieldVars, docVars>>

\* if user_id: db.add(invoice); db.commit(); then the success response.
Persist(ok) ==
  /\ pc = "persist"
  /\ pc' = "done"
  /\ IF user_id # 0
       THEN IF ok
              THEN /\ db' = Append(db, [user_id |-> user_id, kind |-> kind])
                   /\ response' = "ok"
              ELSE /\ response' = "fail500"
                   /\ UNCHANGED db
       ELSE /\ response' = "ok"
            /\ UNCHANGED db
  /\ UNCHANGED <<kind, user_id, npages, passVars, ocrVars, text_out, ret_by, extracted>>
  /\ UNCHANGED <<fieldVars, docVars>>

Next ==
  \/ \E n \in 1..MaxPages, u \in 0..1 : ProcessInvoice(n, u)
  \/ \E u \in 0..1 : ProcessImage(u)
  \/ \E t \in NativeTexts : ReadNativePage(t)
  \/ ReaderRaises
  \/ EndPass
  \/ FullOcrNextPage
  \/ FullOcrEnd
  \/ \E ok \in BOOLEAN : OcrPrepare(ok)
  \/ \E o \in Outcomes : OcrTryPsm(o)
  \/ \E o \in Outcomes : OcrFallbackRaw(o)
  \/ OcrFallbackSkip
  \/ OcrReturn
  \/ CheckText
  \/ \E ok \in BOOLEAN : ExtractData(ok)
  \/ \E ok \in BOOLEAN : Persist(ok)

Spec == Init /\ [][Next]_vars

\* ======================================================= field extraction
\* InvoiceDataExtractor._extract_field.  A string is a sequence of
\* characters, one element per character.  A Cyrillic letter is written by
\* its transliteration ("ch", "ya", "soft" are one character each); a Latin
\* letter carries the prefix lat_.
Q == "\""

LatinLower == {"lat_x"}
LatinUpper == {"lat_X"}
CyrLower ==
  {"a", "b", "ch", "d", "e", "i", "k", "l", "m", "n", "o", "p", "r", "s",
   "soft", "t", "ts", "u", "v", "ya", "zh"}
CyrUpper == {"A", "D", "I", "K", "N", "O", "P", "R", "S", "T"}
Digits == {"0", "1", "2", "3", "4", "5", "6", "7", "8", "9"}
Spaces == {" ", "\n"}

IsSpace(c) == c \in Spaces
IsDigit(c) == c \in Digits
\* [a-z] under re.IGNORECASE, and [a-zA-Z].
IsLatin(c) == c \in LatinLower \cup LatinUpper
\* [a-zа-я] under re.IGNORECASE.
Letters == LatinLower \cup LatinUpper \cup CyrLower \cup CyrUpper
IsLetter(c) == c \in Letters

UpperChars == <<"A", "D", "I", "K", "N", "O", "P", "R", "S", "T", "lat_X">>
LowerChars == <<"a", "d", "i", "k", "n", "o", "p", "r", "s", "t", "lat_x">>

\* str.lower(), character by character.
LowerChar(c) ==
  IF \E k \in 1..Len(UpperChars) : UpperChars[k] = c
    THEN LowerChars[CHOOSE k \in 1..Len(UpperChars) : UpperChars[k] = c]
    ELSE c
Lower(s) == [i \in 1..Len(s) |-> LowerChar(s[i])]

RECURSIVE LStrip(_)
LStrip(s) ==
  IF s # <<>> /\ IsSpace(Head(s)) THEN LStrip(Tail(s)) ELSE s

RECURSIVE RStrip(_)
RStrip(s) ==
  IF s # <<>> /\ IsSpace(s[Len(s)]) THEN RStrip(SubSeq(s, 1, Len(s) - 1)) ELSE s

\* str.strip()
Strip(s) == LStrip(RStrip(s))

\* re.sub(r'\s+', ' ', s): every run of whitespace becomes one space.
RECURSIVE CollapseSpaces(_)
CollapseSpaces(s) ==
  IF s = <<>> THEN <<>>
  ELSE IF IsSpace(Head(s)) THEN <<" ">> \o CollapseSpaces(LStrip(s))
  ELSE <<Head(s)>> \o CollapseSpaces(Tail(s))

\* s.replace(' ', '')
RECURSIVE RemoveBlanks(_)
RemoveBlanks(s) ==
  IF s = <<>> THEN <<>>
  ELSE IF Head(s) = " " THEN RemoveBlanks(Tail(s))
  ELSE <<Head(s)>> \o RemoveBlanks(Tail(s))

\* s.count(c)
Count(s, c) == Cardinality({ i \in 1..Len(s) : s[i] = c })

\* len(s.split())
Words(s) ==
  Cardinality({ i \in 1..Len(s) : ~IsSpace(s[i]) /\ (i = 1 \/ IsSpace(s[i - 1])) })

SetMin(S) == CHOOSE m \in S : \A n \in S : m <= n

\* s.find(w): the 0-based index of the first occurrence, or -1.
Find(s, w) ==
  LET at == { i \in 0..(Len(s) - Len(w)) : SubSeq(s, i + 1, i + Len(w)) = w }
  IN IF at = {} THEN -1 ELSE SetMin(at)

\* The stop words of the seller and buyer branch, in the order of the code.
stop_words ==
  << <<"K", "a", "r", "t", "a">>,
     <<"P", "o", "l", "u", "ch", "a", "t", "e", "l", "soft">>,
     <<"K", "v", "i", "t", "a", "n", "ts", "i", "ya">>,
     <<"P", "o", " ", "v", "o", "p", "r", "o", "s", "a", "m">>,
     <<"p", "o", "l", "u", "ch", "a", "t", "e", "l", "ya">>,
     <<"k", "a", "r", "t", "a">>,
     <<"K", "a", "r", "t", "a", " ", "p", "o", "l", "u", "ch", "a", "t", "e", "l", "ya">>,
     <<"S", "l", "u", "zh", "b", "a">>,
     <<"I", "N", "N">>,
     <<"K", "P", "P">>,
     <<"A", "d", "r", "e", "s">> >>

\* min_idx: the least index > 0 at which a stop word starts, or len(value).
MinIdx(v) ==
  LET low == Lower(v)
      idx == { Find(low, Lower(stop_words[k])) : k \in 1..Len(stop_words) }
  IN SetMin({Len(v)} \cup { i \in idx : i > 0 })

\* Mutant of Truncate: the cut without the closing quote.
Truncate_QuoteLeftOpen(v) ==
  IF MinIdx(v) < Len(v) THEN Strip(SubSeq(v, 1, MinIdx(v))) ELSE v

\* The cut at the first stop word, with the quote closed again.
Truncate(v) ==
  IF MinIdx(v) < Len(v)
    THEN LET cut == Strip(SubSeq(v, 1, MinIdx(v)))
         IN IF Count(cut, Q) % 2 = 1 THEN Append(cut, Q) ELSE cut
    ELSE v

\* re.sub(r'\s+[a-z]\s*$', '', v, flags=re.IGNORECASE)
DropTrailingLatin(v) ==
  LET r == RStrip(v)
  IN IF Len(r) >= 2 /\ IsLatin(r[Len(r)]) /\ IsSpace(r[Len(r) - 1])
       THEN RStrip(SubSeq(r, 1, Len(r) - 1))
       ELSE v

RECURSIVE RStripCommas(_)
RStripCommas(s) ==
  IF s # <<>> /\ s[Len(s)] = "," THEN RStripCommas(SubSeq(s, 1, Len(s) - 1)) ELSE s

\* re.sub(r'\s*[,]+$', '', v)
DropTrailingCommas(v) ==
  IF v # <<>> /\ v[Len(v)] = "," THEN RStrip(RStripCommas(v)) ELSE v

\* re.match(r'^L\s*[,]?$', v) for a one-character class L.
OneCharOf(v, L) ==
  /\ v # <<>>
  /\ v[1] \in L
  /\ LET rest == LStrip(Tail(v)) IN rest = <<>> \/ rest = <<",">>

AllDigits(v) == v # <<>> /\ \A i \in 1..Len(v) : IsDigit(v[i])

\* ------------------------------------------------------- captures
\* What group(1) of a pattern can hold, by the shape of the group.
OOO_Rim == <<"O", "O", "O", " ", Q, "R", "i", "m", Q>>
OOO_Rim_INN == <<"O", "O", "O", " ", Q, "R", "i", "m", " ", "I", "N", "N", Q>>
IP_Rim == <<"I", "P", " ", "R", "i", "m">>
IP_Rim_INN == <<"I", "P", " ", "R", "i", "m", " ", "I", "N", "N", " ">>
IP_Inna == <<"I", "P", " ", "I", "n", "n", "a">>
IP_Rim_lines == <<"I", "P", "\n", " ", "R", "i", "m">>
IP_Rim_comma == <<"I", "P", " ", "R", "i", "m", ",">>
IP_Rim_x == <<"I", "P", " ", "R", "i", "m", " ", "lat_x">>
IP_x == <<"I", "P", " ", "lat_x">>
Rim_Rim == <<"R", "i", "m", " ", "R", "i", "m">>
Rim_R == <<"R", "i", "m", " ", "R", ".">>
Sluzhba_Rim == <<"S", "l", "u", "zh", "b", "a", " ", "R", "i", "m">>
Karta_poluchatelya ==
  <<"K", "a", "r", "t", "a", " ", "p", "o", "l", "u", "ch", "a", "t", "e", "l", "ya">>
OOO_Rim_open == <<"O", "O", "O", " ", Q, "R", "i", "m">>
OOO_TD_Rim == <<"O", "O", "O", " ", "T", "D", " ", "R", "i", "m">>
Num_12 == <<"1", "2">>
Num_1_2 == <<"1", "/", "2">>
Num_long == <<"1", "2", "3", "4", "5", "6", "7", "8", "9", "0", "1">>
Date_dots == <<"1", ".", "2", ".", "2", "0", "2", "4">>
Date_words == <<"1", "\n", "m", "a", "ya", " ", "\n", "2", "0", "2", "4", " ", "g", ".">>
Date_slashes == <<"1", "/", "2", "/", "2", "0", "2", "4">>
Sum_spaced == <<"1", " ", "2", "3", "4", ",", "5", "0">>
Sum_plain == <<"1", "2", ",", "5", "0">>

Pool(shape) ==
  CASE shape = "quoted"   -> {OOO_Rim, OOO_Rim_INN}
    [] shape = "greedy"   -> {IP_Rim, IP_Rim_INN, IP_Inna, IP_Rim_lines, IP_Rim_comma, IP_Rim_x}
    [] shape = "lazy"     -> {IP_Rim, IP_Rim_comma}
    [] shape = "lazy_ip"  -> {IP_Rim, IP_x}
    [] shape = "words"    -> {Rim_Rim, Sluzhba_Rim, Karta_poluchatelya}
    [] shape = "initial"  -> {Rim_R}
    [] shape = "slashed"  -> {Num_12, Num_1_2, Num_long}
    [] shape = "digits"   -> {Num_12, Num_long}
    [] shape = "digits10" -> {Num_12}
    [] shape = "dots"     -> {Date_dots}
    [] shape = "worded"   -> {Date_words}
    [] shape = "slashes"  -> {Date_slashes}
    [] shape = "amount"   -> {Sum_spaced, Sum_plain}
    [] OTHER              -> {}

\* self.patterns.get(field_name, []), each pattern by the shape of its group.
patterns(f) ==
  CASE f = "invoice_number" ->
         <<"slashed", "slashed", "digits", "digits", "slashed", "digits10", "slashed">>
    [] f = "date" ->
         <<"dots", "worded", "dots", "dots", "slashes">>
    [] f = "seller" ->
         <<"quoted", "greedy", "quoted", "greedy", "quoted", "greedy", "quoted", "lazy",
           "quoted", "lazy", "quoted", "lazy", "quoted", "quoted", "lazy_ip", "words">>
    [] f = "buyer" ->
         <<"quoted", "greedy", "quoted", "greedy", "quoted", "lazy", "quoted", "quoted",
           "lazy_ip", "initial", "words">>
    [] f = "total_amount" ->
         <<"amount", "amount", "amount", "amount", "amount", "amount", "amount",
           "amount", "amount">>
    [] OTHER -> <<>>

Fields == {"invoice_number", "date", "seller", "buyer", "total_amount"}
Parties == {"seller", "buyer"}

\* What each pattern lets stand between its anchor keyword and its group:
\* "tight" is whitespace and [:\-] only, "line" is [^\n]*?\n\s* (the rest of
\* the anchor's line), "no_p" is [^п]*? (no keyword starting with п),
\* "wide" is [^:]* (any run without a colon, line breaks included).
gaps(f) ==
  CASE f = "seller" ->
         <<"tight", "tight", "tight", "tight", "line", "line", "tight", "tight",
           "tight", "tight", "no_p", "no_p", "tight", "tight", "wide", "tight">>
    [] f = "buyer" ->
         <<"tight", "tight", "line", "line", "tight", "tight", "tight", "tight",
           "wide", "tight", "tight">>
    [] OTHER -> [i \in 1..Len(patterns(f)) |-> "tight"]

\* The gap can hold the other party's anchor keyword.
Holds(gap) == gap \in {"line", "wide"}

\* re.search(pattern, text) for pattern i of the field.
Searches(f, i) ==
  {NoMatch} \cup
  (IF i \in 1..Len(patterns(f))
     THEN { Match(s) : s \in Pool(patterns(f)[i]) } \cup
          (IF Holds(gaps(f)[i]) THEN { Across(s) : s \in Pool(patterns(f)[i]) } ELSE {})
     ELSE {})

\* The first match of the nested buyer_patterns / seller_patterns, if any.
\* The lists anchor their legal-form patterns behind [^:]*, the personal
\* names behind \s+.
NestedSearches(f) ==
  {NoMatch} \cup
  (IF f = "buyer"
     THEN {Match(OOO_Rim), Match(OOO_Rim_open), Match(Rim_R),
           Across(OOO_Rim), Across(OOO_Rim_open)}
     ELSE {Match(OOO_TD_Rim), Match(Rim_Rim), Across(OOO_TD_Rim)})

\* The confidence threshold of the validator, in tenths.
ConfidenceMin == 5

\* What validate_extraction can do: raise, or return (is_valid, confidence).
Validations ==
  {Raised} \cup { Validated(ok, c) : ok \in BOOLEAN, c \in {3, ConfidenceMin, 8} }

\* ------------------------------------------------------- the pipeline
\* The checks on the raw capture: an invoice number longer than 10
\* characters; a party name that is one letter, all digits or under 3
\* characters.
TooLong(v) == Len(Strip(v)) > InvoiceNumberMax

Degenerate(v) ==
  LET c == Strip(v)
  IN OneCharOf(c, Letters) \/ AllDigits(c) \/ Len(c) < NameMin

\* Whitespace runs collapsed; blanks removed from an amount.
Normalized(f, v) ==
  LET n == CollapseSpaces(Strip(v))
  IN IF f = "total_amount" THEN RemoveBlanks(n) ELSE n

\* The party branch up to the nested lists: stop-word cut, then the
\* trailing Latin letter and the trailing commas go.
Cleaned(v) == DropTrailingCommas(DropTrailingLatin(Truncate(v)))

\* The test that sends the party branch to its nested pattern list.
NeedsRescue(v) ==
  \/ Len(v) < NameMin
  \/ OneCharOf(v, LatinLower)
  \/ (v # <<>> /\ (\A i \in 1..Len(v) : IsLatin(v[i]) \/ IsSpace(v[i]) \/ v[i] = ",")
      /\ Words(v) < 2)

\* Mutant of Rescued: the nested list is searched for every candidate.
Rescued_Always(c, n) == n

\* The nested list is searched only behind the NeedsRescue test; its first
\* match replaces the value.
Rescued(c, n) == IF NeedsRescue(c) THEN n ELSE NoMatch

\* Mutant of TooShort: the length test is gone from the last check.
TooShort_OneLetterOnly(v) == OneCharOf(v, Letters)

\* The last test of the party branch, on the stripped value.
TooShort(v) == Len(v) < NameMin \/ OneCharOf(v, Letters)

\* Mutant of Rejects: a raising validator rejects too.
Rejects_FailClosed(vo) ==
  vo.raised \/ (~vo.is_valid /\ vo.confidence < ConfidenceMin)

\* if not is_valid and confidence < 0.5: continue; except: pass
Rejects(vo) == ~vo.raised /\ ~vo.is_valid /\ vo.confidence < ConfidenceMin

\* if self.use_ml_validation and self.ml_classifier
Validating == use_ml_validation /\ ml_classifier

Outcome(how, v, n, vo) == [verdict |-> how, s |-> v, nested |-> n, vout |-> vo]

\* The validator block and the return that follows it.
Validate(v, n, on, vo) ==
  IF on
    THEN Outcome(IF Rejects(vo) THEN "implausible" ELSE "accepted", v, n, vo)
    ELSE Outcome("accepted", v, n, NotCalled)

\* One iteration of `for pattern_idx, pattern in enumerate(patterns)`:
\* m is what the pattern found, n what the nested list would find, vo what
\* the validator would do, on whether the validator is consulted.
Iteration(f, m, n, on, vo) ==
  IF ~m.hit \/ m.s = <<>> THEN Outcome("no_match", <<>>, NoMatch, NotCalled)
  ELSE IF f = "invoice_number" /\ TooLong(m.s)
    THEN Outcome("degenerate", <<>>, NoMatch, NotCalled)
  ELSE IF f \in Parties /\ Degenerate(m.s)
    THEN Outcome("degenerate", <<>>, NoMatch, NotCalled)
  ELSE IF f \in Parties
    THEN LET c == Cleaned(Normalized(f, m.s))
             r == Rescued(c, n)
             v == Strip(IF r.hit THEN r.s ELSE c)
         IN IF TooShort(v)
              THEN Outcome("degenerate", <<>>, r, NotCalled)
              ELSE Validate(v, r, on, vo)
  ELSE Validate(Normalized(f, m.s), NoMatch, on, vo)

\* ------------------------------------------------------- extractor steps
\* InvoiceDataExtractor(use_ml_validation=req): the classifier is imported
\* and built, the model file is looked for and loaded.
Construct(req, imported, found, loaded) ==
  /\ fpc = "new"
  /\ ml_classifier' = (req /\ imported)
  /\ use_ml_validation' = (req /\ imported /\ found /\ loaded)
  /\ fpc' = "ready"
  /\ UNCHANGED <<field_name, pattern_idx, cand, nested, vout, verdict, value>>
  /\ UNCHANGED <<acqVars, docVars>>

\* self._extract_field(text, f)
ExtractField(f) ==
  /\ fpc \in {"ready", "returned"}
  /\ fpc' = "scan"
  /\ field_name' = f
  /\ pattern_idx' = 1
  /\ cand' = NoMatch /\ nested' = NoMatch /\ vout' = NotCalled
  /\ verdict' = "none" /\ value' = None
  /\ UNCHANGED <<use_ml_validation, ml_classifier>>
  /\ UNCHANGED <<acqVars, docVars>>

\* The pattern at pattern_idx is searched and its capture goes through the
\* pipeline: the value is returned, or the loop goes on.
TryPattern(m, n, vo) ==
  /\ fpc = "scan"
  /\ pattern_idx <= Len(patterns(field_name))
  /\ \E out \in {Iteration(field_name, m, n, Validating, vo)} :
        /\ cand' = m
        /\ nested' = out.nested
        /\ vout' = out.vout
        /\ verdict' = out.verdict
        /\ IF out.verdict = "accepted"
             THEN /\ value' = Some(out.s)
                  /\ fpc' = "returned"
                  /\ UNCHANGED pattern_idx
             ELSE /\ pattern_idx' = pattern_idx + 1
                  /\ UNCHANGED <<value, fpc>>
  /\ UNCHANGED <<use_ml_validation, ml_classifier, field_name>>
  /\ UNCHANGED <<acqVars, docVars>>

\* The list is exhausted: return None.
ReturnNone ==
  /\ fpc = "scan"
  /\ pattern_idx = Len(patterns(field_name)) + 1
  /\ value' = None
  /\ fpc' = "returned"
  /\ UNCHANGED <<use_ml_validation, ml_classifier, field_name, pattern_idx,
                 cand, nested, vout, verdict>>
  /\ UNCHANGED <<acqVars, docVars>>

NextField ==
  \/ \E req, imported, found, loaded \in BOOLEAN : Construct(req, imported, found, loaded)
  \/ \E f \in Fields : ExtractField(f)
  \/ \E m \in Searches(field_name, pattern_idx), n \in NestedSearches(field_name),
        vo \in Validations : TryPattern(m, n, vo)
  \/ ReturnNone

SpecField == Init /\ [][NextField]_vars

\* ======================================================= record assembly
\* InvoiceDataExtractor.extract_invoice_data.  A Python value is None, a
\* scalar (string or number), a dictionary or a list.
PyNone == [t |-> "None"]
Scalar == [t |-> "scalar"]
Dict(d) == [t |-> "dict", d |-> d]
List(l) == [t |-> "list", l |-> l]

\* A dictionary with the keys K, every one a scalar.
Scalars(K) == [k \in K |-> Scalar]

\* `d if d else None` at the end of a section builder.
OrNone(d) == IF DOMAIN d = {} THEN PyNone ELSE Dict(d)

\* d[k] = v
With(d, k, v) == [x \in DOMAIN d \cup {k} |-> IF x = k THEN v ELSE d[x]]

\* The members a section builder adds when its pattern finds something;
\* one or two stand for the members of each section.
InvoiceKeys == {"number", "date"}
SupplierKeys == {"company_name", "inn"}
CustomerKeys == {"company_name", "phone"}
ContractKeys == {"number", "date"}
SummaryKeys == {"total_with_vat"}
SignatoryKeys == {"issued_by"}
InfoKeys == {"pickup_phone"}

\* _extract_line_items_structured: [] or the list of line items;
\* _extract_terms_and_conditions: None or the list of terms.
OneItem == Dict(Scalars({"line_number", "product_name"}))
ItemLists == {<<>>, <<OneItem>>}
OneTerm == Dict(Scalars({"number", "text"}))

\* _build_customer_section: the members found, then the contract, or the
\* contract of two None when _extract_contract returns None.
CustomerSection(K, C) ==
  LET customer == Scalars(K)
      contract == IF C # {} THEN Dict(Scalars(C))
                  ELSE Dict([k \in ContractKeys |-> PyNone])
  IN OrNone(With(customer, "contract", contract))

\* _build_financial_summary: the members found, and always the currency.
SummarySection(K) == OrNone(With(Scalars(K), "currency", Scalar))

\* The sections in the order of the dictionary display.
Sections ==
  <<"invoice", "supplier", "customer", "line_items", "financial_summary",
    "signatories", "terms_and_conditions", "additional_info">>

\* What the builder of a section can return.
Built(section) ==
  CASE section = "invoice" -> { OrNone(Scalars(K)) : K \in SUBSET InvoiceKeys }
    [] section = "supplier" -> { OrNone(Scalars(K)) : K \in SUBSET SupplierKeys }
    [] section = "customer" ->
         { CustomerSection(K, C) : K \in SUBSET CustomerKeys, C \in SUBSET ContractKeys }
    [] section = "line_items" -> { List(l) : l \in ItemLists }
    [] section = "financial_summary" -> { SummarySection(K) : K \in SUBSET SummaryKeys }
    [] section = "signatories" -> { OrNone(Scalars(K)) : K \in SUBSET SignatoryKeys }
    [] section = "terms_and_conditions" -> {PyNone, List(<<OneTerm>>)}
    [] section = "additional_info" -> { OrNone(Scalars(K)) : K \in SUBSET InfoKeys }
    [] OTHER -> {}

\* _clean_result: the keys whose value is None, {} or [] are left out.
CleanResult(d) ==
  LET kept == { k \in DOMAIN d :
                  /\ d[k] # PyNone
                  /\ ~(d[k].t = "dict" /\ DOMAIN d[k].d = {})
                  /\ ~(d[k].t = "list" /\ d[k].l = <<>>) }
  IN [k \in kept |-> d[k]]

\* extract_invoice_data(text) is called.
ExtractInvoiceData ==
  /\ rec_pc \in {"idle", "returned", "raised", "saved"}
  /\ rec_pc' = "building"
  /\ built' = 0
  /\ result' = NoKeys
  /\ record' = NoKeys
  /\ invoice' = NoKeys
  /\ UNCHANGED <<acqVars, fieldVars, itemVars, extraVars>>

\* The next section of the dictionary display is built.
BuildSection(v) ==
  /\ rec_pc = "building"
  /\ built < Len(Sections)
  /\ result' = With(result, Sections[built + 1], v)
  /\ built' = built + 1
  /\ UNCHANGED <<rec_pc, record, invoice>>
  /\ UNCHANGED <<acqVars, fieldVars, itemVars, extraVars>>

\* The sections whose builder has a conversion outside every try block:
\* int(number) in _extract_terms_and_conditions raises ValueError on a
\* number of more digits than int() converts.
Raising == {"terms_and_conditions"}

\* The builder of the next section raises: nothing in extract_invoice_data
\* catches it, and the call ends with the exception.
BuildRaises ==
  /\ rec_pc = "building"
  /\ built < Len(Sections)
  /\ Sections[built + 1] \in Raising
  /\ rec_pc' = "raised"
  /\ UNCHANGED <<built, result, record, invoice>>
  /\ UNCHANGED <<acqVars, fieldVars, itemVars, extraVars>>

\* return self._clean_result(result)
ReturnRecord ==
  /\ rec_pc = "building"
  /\ built = Len(Sections)
  /\ record' = CleanResult(result)
  /\ rec_pc' = "returned"
  /\ UNCHANGED <<built, result, invoice>>
  /\ UNCHANGED <<acqVars, fieldVars, itemVars, extraVars>>

\* structured_data.get(key) and structured_data.get(key, default)
Get(d, k, default) == IF k \in DOMAIN d THEN d[k] ELSE default

\* Invoice(invoice_number=structured_data.get('invoice_number'), ...): the
\* columns filled from the record
InvoiceRow(sd) ==
  [c \in {"invoice_number", "date", "seller", "buyer", "total_amount", "currency"} |->
     IF c = "currency" THEN Get(sd, c, Scalar) ELSE Get(sd, c, PyNone)]

\* process_invoice and process_image after the extraction: `if user_id:` the
\* row is added and committed and its id is put into the record.
PersistInvoice(u) ==
  /\ rec_pc = "returned"
  /\ rec_pc' = "saved"
  /\ IF u # 0
       THEN /\ invoice' = InvoiceRow(record)
            /\ record' = With(record, "invoice_id", Scalar)
       ELSE UNCHANGED <<invoice, record>>
  /\ UNCHANGED <<built, result>>
  /\ UNCHANGED <<acqVars, fieldVars, itemVars, extraVars>>

\* The section the display builds next.
NextSection == IF built < Len(Sections) THEN Sections[built + 1] ELSE "none"

NextRecord ==
  \/ ExtractInvoiceData
  \/ \E v \in Built(NextSection) : BuildSection(v)
  \/ BuildRaises
  \/ ReturnRecord
  \/ \E u \in 0..1 : PersistInvoice(u)

SpecRecord == Init /\ [][NextRecord]_vars

\* ------------------------------------------------------- table lines
\* A line of the document is a sequence of tokens; the scan of _extract_items
\* reads a line only through regular expressions, and a token is the part of
\* a line those expressions tell apart:
\*   "idx"    the row number opening a line, with the blank after it  ("1 ")
\*   "word"   a name of letters, ten characters or more      ("Bolt stalnoy")
\*   "unit"   a unit of measure of the lists of units                 ("sht")
\*   "short"  another word of one to five letters                   ("sklad")
\*   "qty"    an integer of one to three digits                        ("10")
\*   "amt"    an amount with three integer digits                  ("100,00")
\*   "samt"   an amount with two integer digits                     ("50,00")
\*   "junk"   characters outside every character class                ("???")
\*   "label"  the words of a total, subtotal or VAT line           ("Itogo:")
Tokens(t) ==
  CASE t = "blank"      -> <<>>
    [] t = "heading"    -> <<"word">>
    [] t = "colhead"    -> <<"word", "unit", "short", "short", "short">>
    [] t = "descr"      -> <<"short">>
    [] t = "row8"       -> <<"idx", "word", "unit", "qty",
                             "amt", "amt", "amt", "amt">>
    [] t = "row9s"      -> <<"idx", "word", "unit", "qty", "short",
                             "amt", "amt", "amt", "amt">>
    [] t = "rowhead"    -> <<"idx", "word">>
    [] t = "cont"       -> <<"unit", "qty", "amt", "amt", "amt", "amt">>
    [] t = "bad"        -> <<"idx", "junk">>
    [] t = "note"       -> <<"samt", "word">>
    [] t = "charge"     -> <<"word", "amt">>
    [] t = "total_amt"  -> <<"label", "amt">>
    [] t = "total_skip" -> <<"label", "amt">>
    [] t = "end"        -> <<"label">>

\* The lines a document is made of, each standing for one text:
\*   heading "Perechen tovarov", colhead "Naimenovanie Ed. Kol-vo Tsena
\*   Summa", descr "Opisanie", total_amt "Itogo: 1000,00", total_skip "Vsego s
\*   NDS 1200,00", end "Itogo".
LineTypes ==
  {"blank", "heading", "colhead", "descr", "row8", "row9s", "rowhead", "cont",
   "bad", "note", "charge", "total_amt", "total_skip", "end"}

\* text.split('\n'): one line at least
Docs == UNION {[1..n -> LineTypes] : n \in 1..MaxLines}

\* the keyword tests of the scan, by line
Blank(t) == Tokens(t) = <<>>
items_start_keywords_priority == {"heading"}
items_start_keywords_secondary == {"colhead", "descr"}
HeaderToken(t) == t \in {"colhead"}
items_end_keywords == {"end"}
IsCategoryText(t) == t \in {"heading"}
header_keywords == {"colhead"}
SkippedTotal(t) == t \in {"total_skip", "end"}
TotalStart(t) == Len(Tokens(t)) > 0 /\ Tokens(t)[1] = "label"
LineLen(t) == IF t = "blank" THEN 0 ELSE 40

starts_with_number(t) == Len(Tokens(t)) > 0 /\ Tokens(t)[1] = "idx"

\* re.findall(r'([\d\s]{3,}[,\.]\d{2})'): three characters of digits and
\* blanks before the decimals, so two digits count only after a blank
Amounts(c) ==
  Cardinality({j \in 1..Len(c) : c[j] = "amt" \/ (c[j] = "samt" /\ j > 1)})

has_amount(t) == Amounts(Tokens(t)) >= 1

\* re.findall(r'\d+'): an amount is two numbers
Numbers(c) ==
  Cardinality({j \in 1..Len(c) : c[j] \in {"idx", "qty"}})
  + 2 * Cardinality({j \in 1..Len(c) : c[j] \in {"amt", "samt"}})

HasDigit(t) == Numbers(Tokens(t)) >= 1

\* ------------------------------------------------------- row grammars
\* what the character class of a name takes: letters, digits, blanks, commas
\* and dots
NameTokens == {"idx", "word", "unit", "short", "qty", "amt", "samt"}
\* [A-Za-z]{1,5} between blanks
ShortWords == {"unit", "short"}
\* [\d\s]{1,}[,\.]\d{2}
LooseAmounts == {"amt", "samt"}
\* [^\d]{0,50}? between blanks
TermTokens == {"word", "unit", "short", "junk", "label"}

TokenLen(k) ==
  CASE k = "idx" -> 1 [] k = "word" -> 13 [] k = "unit" -> 2
    [] k = "short" -> 5 [] k = "qty" -> 2 [] k = "amt" -> 6
    [] k = "samt" -> 5 [] k = "junk" -> 3 [] k = "label" -> 5

\* the length of c[a..b] written out, one blank between tokens
RECURSIVE SpanLen(_, _, _)
SpanLen(c, a, b) ==
  IF a > b THEN 0
  ELSE TokenLen(c[a]) + (IF a < b THEN 1 ELSE 0) + SpanLen(c, a + 1, b)

Is(c, j, S) == j \in 1..Len(c) /\ c[j] \in S
AllIn(c, a, b, S) == \A j \in a..b : Is(c, j, S)

\* ^(\d+)\s+(.+?)\s+(\d+)\s+(sht|kg|...)\s*\.?\s+(amount)\s+(amount), with a
\* name of five characters or more that is not a number
alt_pattern(c) ==
  \E k \in 2..Len(c) :
    /\ Is(c, 1, {"idx"})
    /\ SpanLen(c, 2, k) >= NameLenMin
    /\ Is(c, k + 1, {"qty"})
    /\ Is(c, k + 2, {"unit"})
    /\ Is(c, k + 3, LooseAmounts)
    /\ Is(c, k + 4, LooseAmounts)

\* ^(\d+)\s+([name class]{10,}?)\s+(\d+)\s+([letters]{1,5})\s+(amount)\s+(amount)
simple_item_pattern(c) ==
  \E k \in 2..Len(c) :
    /\ Is(c, 1, {"idx"})
    /\ AllIn(c, 2, k, NameTokens)
    /\ SpanLen(c, 2, k) >= SimpleNameMin
    /\ Is(c, k + 1, {"qty"})
    /\ Is(c, k + 2, ShortWords)
    /\ Is(c, k + 3, LooseAmounts)
    /\ Is(c, k + 4, LooseAmounts)

\* the nine fields: index, name, unit, quantity, delivery terms, four amounts
\* (the places where the name may end)
item_pattern(c) ==
  {k \in 2..Len(c) :
     /\ Is(c, 1, {"idx"})
     /\ AllIn(c, 2, k, NameTokens)
     /\ Is(c, k + 1, ShortWords)
     /\ Is(c, k + 2, {"qty"})
     /\ Is(c, k + 3, TermTokens)
     /\ AllIn(c, k + 4, k + 7, {"amt"})}

\* the eight fields: index, name, unit, quantity, four amounts
\* (the places where the name may end)
item_pattern_no_terms(c) ==
  {k \in 2..Len(c) :
     /\ Is(c, 1, {"idx"})
     /\ AllIn(c, 2, k, NameTokens)
     /\ Is(c, k + 1, ShortWords)
     /\ Is(c, k + 2, {"qty"})
     /\ AllIn(c, k + 3, k + 6, {"amt"})}

\* ^(\d+)\s+([name class]{5,}?)\s+([letters]{1,5})\s+(\d+) and three valid
\* amounts anywhere in the line
simple_pattern(c) ==
  /\ \E k \in 2..Len(c) :
       /\ Is(c, 1, {"idx"})
       /\ AllIn(c, 2, k, NameTokens)
       /\ SpanLen(c, 2, k) >= NameLenMin
       /\ Is(c, k + 1, ShortWords)
       /\ Is(c, k + 2, {"qty"})
  /\ Amounts(c) >= LooseAmountsMin

\* (\d+)\s+([letters]{1,5})\s+(amount)\s+(amount), anywhere in the line: the
\* places where it matches
fallback_pattern(c) ==
  {j \in 1..Len(c) :
     /\ Is(c, j, {"idx", "qty"})
     /\ Is(c, j + 1, ShortWords)
     /\ Is(c, j + 2, LooseAmounts)
     /\ Is(c, j + 3, LooseAmounts)}

\* the amounts of the catalogue have no run of four digits, so large_numbers
\* is empty
has_potential(c) ==
  \/ Numbers(c) >= PotentialNumbers /\ Amounts(c) >= 1
  \/ Numbers(c) >= PotentialNumbers + 1

\* a known unit is a substring of the line: every word of the catalogue has
\* one of its letters
has_unit(c) == \E j \in 1..Len(c) : c[j] \in {"word", "unit", "short"}

is_total_line(c) == Is(c, 1, {"label"})

\* the text before place j without the leading row number: three characters
\* or more
NamePart(c, j) ==
  LET from == IF Is(c, 1, {"idx"}) THEN 2 ELSE 1
  IN  SpanLen(c, from, j - 1) >= HeuristicNameMin

\* ([name class]{10,}) somewhere in the line, not opening with a total word
desc_match(c) ==
  \E a \in 1..Len(c) : \E b \in a..Len(c) :
    /\ AllIn(c, a, b, NameTokens)
    /\ SpanLen(c, a, b) > DescMin

\* ------------------------------------------------------- one table line
\* the lines after line k that combined_line takes: 0, 1 or 2
should_combine(doc, k) ==
  /\ k + 1 <= Len(doc)
  /\ HasDigit(doc[k])
  /\ LineLen(doc[k + 1]) > 0
  /\ ~TotalStart(doc[k + 1])
  /\ ~starts_with_number(doc[k + 1])
  /\ LineLen(doc[k + 1]) < CombineMax

Taken(doc, k) ==
  IF ~should_combine(doc, k) THEN 0
  ELSE IF /\ k + 2 <= Len(doc)
          /\ Amounts(Tokens(doc[k]) \o Tokens(doc[k + 1])) = 0
          /\ ~TotalStart(doc[k + 2])
          /\ ~starts_with_number(doc[k + 2])
          /\ LineLen(doc[k + 2]) < CombineMax
       THEN 2
       ELSE 1

combined_line(doc, k) ==
  LET n == Taken(doc, k)
  IN  Tokens(doc[k])
        \o (IF n >= 1 THEN Tokens(doc[k + 1]) ELSE <<>>)
        \o (IF n >= 2 THEN Tokens(doc[k + 2]) ELSE <<>>)

\* the members of an item that hold a value, by the branch that built it
SimpleKeys ==
  {"number", "name", "quantity", "unit", "price_without_vat",
   "total_with_vat", "amount_without_vat"}
NoTermsKeys ==
  {"number", "name", "unit", "quantity", "price_without_vat",
   "amount_without_vat", "vat_amount", "total_with_vat"}
FullKeys == NoTermsKeys \union {"delivery_terms"}
MinimalKeys == {"name", "price_without_vat", "total_with_vat"}

\* an item: the branch that built it, where its number comes from ("row":
\* the digits opening the line, "one": the text '1', "none": no member), its
\* members, and whether its last amount ran into an amount that follows the
\* row in combined_line
Item(by, number, keys, glued) ==
  [by |-> by, number |-> number, keys |-> keys, glued |-> glued]

\* the greedy last amount group [\d\s,\.]{3,}[,\.]\d{2} runs on over a blank
\* and an amount that follows it; the lazy name ends at the first place
Glued(places, c, fields) == Is(c, SetMin(places) + fields + 1, LooseAmounts)

\* the quantity of the heuristic branch: the number after a run of letters,
\* else the second number of the line, which is the decimals "00" when the
\* line opens with an amount; the price is set from two valid amounts, or
\* from one and a quantity above zero
QuantityAboveZero(c) ==
  \/ \E j \in 1..Len(c) : Is(c, j, {"word"}) /\ Is(c, j + 1, {"qty"})
  \/ LET nums == {j \in 1..Len(c) : c[j] \in {"idx", "qty", "amt", "samt"}}
     IN  nums # {} /\ c[SetMin(nums)] \in {"idx", "qty"}

HeuristicKeys(c) ==
  IF Amounts(c) >= 2 \/ QuantityAboveZero(c) THEN SimpleKeys
  ELSE SimpleKeys \ {"price_without_vat"}

\* the item the cascade of grammars builds from a line, as a sequence of
\* none or one: own is the line itself, c is combined_line
Parse(own, c) ==
  IF alt_pattern(c) THEN <<Item("alt", "row", SimpleKeys, FALSE)>>
  ELSE IF simple_item_pattern(c)
    THEN <<Item("simple", "row", SimpleKeys, FALSE)>>
  ELSE IF item_pattern(c) # {}
    THEN <<Item("full", "row", FullKeys, Glued(item_pattern(c), c, 7))>>
  ELSE IF item_pattern_no_terms(c) # {}
    THEN <<Item("no_terms", "row", NoTermsKeys,
                Glued(item_pattern_no_terms(c), c, 6))>>
  ELSE IF simple_pattern(c)
    THEN <<Item("loose", "row", NoTermsKeys, FALSE)>>
  ELSE IF /\ fallback_pattern(c) # {}
          /\ ~is_total_line(c)
          /\ NamePart(c, SetMin(fallback_pattern(c)))
    THEN <<Item("fallback", "one", SimpleKeys, FALSE)>>
  ELSE IF /\ fallback_pattern(c) = {}
          /\ has_potential(c)
          /\ (has_unit(c) \/ Amounts(c) >= 1)
          /\ ~is_total_line(c)
          /\ Amounts(c) >= 1 /\ Numbers(c) >= 2
          /\ NamePart(c, Len(c) + 1)
    THEN <<Item("heuristic", "one", HeuristicKeys(c), FALSE)>>
  ELSE IF desc_match(own) /\ Amounts(own) >= 1
    THEN <<Item("minimal", "none", MinimalKeys, FALSE)>>
  ELSE <<>>

\* ------------------------------------------------------- the scan
AtLine == ipc = "scan" /\ cursor \in 1..Len(lines)
line == lines[cursor]

\* _extract_items(text)
ExtractItems ==
  /\ ipc = "idle"
  /\ \E doc \in Docs : lines' = doc
  /\ cursor' = 1
  /\ in_items_section' = FALSE
  /\ combined' = 0
  /\ items' = <<>>
  /\ ipc' = "scan"
  /\ UNCHANGED line_items
  /\ UNCHANGED <<acqVars, fieldVars, recVars, extraVars>>

\* a line that is empty once stripped
SkipBlank ==
  /\ AtLine
  /\ Blank(line)
  /\ cursor' = cursor + 1
  /\ UNCHANGED <<ipc, lines, in_items_section, combined, items, line_items>>
  /\ UNCHANGED <<acqVars, fieldVars, recVars, extraVars>>

\* a line met before the section: a priority keyword opens the section, a
\* secondary keyword opens it when the line holds a column header word
\* Mutant of OpensSection: a secondary keyword alone opens the section.
OpensSection_AnySecondary(t) ==
  \/ t \in items_start_keywords_priority
  \/ t \in items_start_keywords_secondary

\* a line met before the section: a priority keyword opens the section, a
\* secondary keyword opens it when the line holds a column header word
OpensSection(t) ==
  \/ t \in items_start_keywords_priority
  \/ t \in items_start_keywords_secondary /\ HeaderToken(t)

BeforeTable ==
  /\ AtLine
  /\ ~Blank(line)
  /\ ~in_items_section
  /\ in_items_section' = OpensSection(line)
  /\ cursor' = cursor + 1
  /\ UNCHANGED <<ipc, lines, combined, items, line_items>>
  /\ UNCHANGED <<acqVars, fieldVars, recVars, extraVars>>

is_category(t) ==
  ~starts_with_number(t) /\ ~has_amount(t) /\ IsCategoryText(t)
is_table_header(t) == t \in header_keywords /\ ~starts_with_number(t)

\* a category line or the header of the table, inside the section
SkipHeading ==
  /\ AtLine
  /\ ~Blank(line)
  /\ in_items_section
  /\ is_category(line) \/ is_table_header(line)
  /\ cursor' = cursor + 1
  /\ UNCHANGED <<ipc, lines, in_items_section, combined, items, line_items>>
  /\ UNCHANGED <<acqVars, fieldVars, recVars, extraVars>>

Row(t) == ~Blank(t) /\ ~is_category(t) /\ ~is_table_header(t)

\* a line of items_end_keywords: break
EndOfSection ==
  /\ AtLine
  /\ in_items_section
  /\ Row(line)
  /\ line \in items_end_keywords
  /\ ipc' = "done"
  /\ UNCHANGED <<lines, cursor, in_items_section, combined, items, line_items>>
  /\ UNCHANGED <<acqVars, fieldVars, recVars, extraVars>>

\* a total line of the second list: continue
SkipTotal ==
  /\ AtLine
  /\ in_items_section
  /\ Row(line)
  /\ line \notin items_end_keywords
  /\ SkippedTotal(line)
  /\ cursor' = cursor + 1
  /\ UNCHANGED <<ipc, lines, in_items_section, combined, items, line_items>>
  /\ UNCHANGED <<acqVars, fieldVars, recVars, extraVars>>

\* the step of the cursor after a line: `i += 1` inside
\* `for i, line in enumerate(lines)` rebinds a name the loop assigns again,
\* so the lines combined_line took are visited in their turn
Advance(k, taken) == k + 1

\* Mutant of AfterRow: a line that matches nothing ends the scan.
AfterRow_StopOnMiss(out) == IF out = <<>> THEN "done" ELSE "scan"

\* where the loop stands after a line: every branch that appends an item
\* ends in continue, the try blocks swallow what is raised, and a line that
\* matches nothing falls out of the last if, so the loop goes on
AfterRow(out) == "scan"

\* any other line of the section: combined_line and the cascade of grammars
ParseRow ==
  /\ AtLine
  /\ in_items_section
  /\ Row(line)
  /\ line \notin items_end_keywords
  /\ ~SkippedTotal(line)
  /\ combined' = Taken(lines, cursor)
  /\ \E out \in {Parse(Tokens(line), combined_line(lines, cursor))} :
       /\ items' = items \o
         [n \in 1..Len(out) |->
            [by |-> out[n].by, number |-> out[n].number, keys |-> out[n].keys,
             glued |-> out[n].glued, at |-> cursor, took |-> combined']]
       /\ ipc' = AfterRow(out)
  /\ cursor' = Advance(cursor, combined')
  /\ UNCHANGED <<lines, in_items_section, line_items>>
  /\ UNCHANGED <<acqVars, fieldVars, recVars, extraVars>>

\* the loop runs out of lines
Exhausted ==
  /\ ipc = "scan"
  /\ cursor > Len(lines)
  /\ ipc' = "done"
  /\ UNCHANGED <<lines, cursor, in_items_section, combined, items, line_items>>
  /\ UNCHANGED <<acqVars, fieldVars, recVars, extraVars>>

\* _clean_number: a float, 0.0 for a text that is no number
clean_number(glued) == IF glued THEN "zero" ELSE "float"

NumericKeys ==
  {"quantity", "price_without_vat", "amount_without_vat", "vat_amount",
   "total_with_vat"}

\* Mutant of LineItem: line_number is always the place in the list.
LineItem_ByPosition(item, idx) ==
  [line_number |-> <<"int", idx>>,
   members |-> (item.keys \ {"number", "name"}) \union {"product_name"},
   numbers |-> [k \in item.keys \intersect NumericKeys |-> "float"]]

\* one entry of _extract_line_items_structured: line_number is the number of
\* the item when that is digits, else the place idx of the item in the list
LineItem(item, idx) ==
  [line_number |->
     CASE item.number = "row"  -> <<"row", item.at>>
       [] item.number = "one"  -> <<"int", 1>>
       [] item.number = "none" -> <<"int", idx>>,
   members |-> (item.keys \ {"number", "name"}) \union {"product_name"},
   numbers |->
     [k \in item.keys \intersect NumericKeys |->
        IF k = "total_with_vat" THEN clean_number(item.glued) ELSE "float"]]

\* _extract_line_items_structured: `return items if items else None`, then
\* [] for no items, else one entry an item
ExtractLineItemsStructured ==
  /\ ipc = "done"
  /\ line_items' = [idx \in 1..Len(items) |-> LineItem(items[idx], idx)]
  /\ ipc' = "returned"
  /\ UNCHANGED <<lines, cursor, in_items_section, combined, items>>
  /\ UNCHANGED <<acqVars, fieldVars, recVars, extraVars>>

NextItems ==
  \/ ExtractItems
  \/ SkipBlank
  \/ BeforeTable
  \/ SkipHeading
  \/ EndOfSection
  \/ SkipTotal
  \/ ParseRow
  \/ Exhausted
  \/ ExtractLineItemsStructured

SpecItems == Init /\ [][NextItems]_vars

\* ------------------------------------------------------- amounts
\* The texts the amount group ([\d\s,\.]{3,}[,\.]\d{2}) can capture: digit
\* groups joined by nothing, a blank, a no-break space, a dot or a comma, a
\* decimal comma or dot, two decimals; the group may open with a blank or
\* with a comma and a blank that stand between the words and the amount.
FirstGroups == {<<"1">>, <<"1", "2", "3">>}
NextGroup == <<"4", "5", "6">>
Separators == {<<>>, <<" ">>, <<"nbsp">>, <<".">>, <<",">>}
DecimalMarks == {",", "."}
Decimals == {<<"5", "0">>, <<"0", "7">>}
Leads == {<<>>, <<" ">>, <<",", " ">>}

RECURSIVE Grouped(_, _, _)
Grouped(first, sep, n) ==
  IF n = 0 THEN first ELSE Grouped(first, sep, n - 1) \o sep \o NextGroup

Captures ==
  {c \in {lead \o Grouped(first, sep, n) \o <<mark>> \o dec :
            lead \in Leads, first \in FirstGroups, sep \in Separators,
            n \in 0..MaxGroups - 1, mark \in DecimalMarks, dec \in Decimals} :
     Len(c) >= AmountBodyMin + 3}

\* a float, as the digits before and after its point
Number(int, frac) == [int |-> int, frac |-> frac]
Zero == Number(<<"0">>, <<"0">>)

\* str.replace(a, b) for one character
RECURSIVE Replace(_, _, _)
Replace(s, a, b) ==
  IF s = <<>> THEN <<>>
  ELSE (IF Head(s) = a THEN b ELSE <<Head(s)>>) \o Replace(Tail(s), a, b)

\* float(): blanks of any kind are dropped at both ends only; then digits, at
\* most one point, one digit at least
FloatBlanks == {" ", "\n", "nbsp"}
RECURSIVE FloatStrip(_)
FloatStrip(s) ==
  IF s = <<>> THEN s
  ELSE IF Head(s) \in FloatBlanks THEN FloatStrip(Tail(s))
  ELSE IF s[Len(s)] \in FloatBlanks THEN FloatStrip(SubSeq(s, 1, Len(s) - 1))
  ELSE s

IsFloat(s) ==
  /\ \A j \in 1..Len(s) : s[j] \in Digits \cup {"."}
  /\ Cardinality({j \in 1..Len(s) : s[j] = "."}) <= 1
  /\ \E j \in 1..Len(s) : s[j] \in Digits

Float(s) ==
  LET points == {j \in 1..Len(s) : s[j] = "."}
      p == IF points = {} THEN Len(s) + 1 ELSE SetMin(points)
  IN  Number(SubSeq(s, 1, p - 1), SubSeq(s, p + 1, Len(s)))

\* _clean_number: blanks and quotes out, comma to point, float(), and 0.0 for
\* what float() refuses
CleanNumber(v) ==
  IF v = <<>> THEN Zero
  ELSE LET value_str ==
             FloatStrip(Replace(Replace(Replace(v, " ", <<>>), Q, <<>>),
                                ",", <<".">>))
       IN  IF IsFloat(value_str) THEN Float(value_str) ELSE Zero

\* ------------------------------------------------------- currency
\* The currency markers of a text: `pre` is the run of three Latin letters
\* that stands right before a marker word, if there is one; rub, usd, eur
\* say which text each of the three marker patterns finds first.
Markers ==
  {m \in [pre : {"none", "TAL"},
          rub : {"none", "rub_cyr", "rub", "ruble_sign"},
          usd : {"none", "usd", "dollar_sign"},
          eur : {"none", "eur", "euro_sign"}] :
     m.pre # "none" =>
       (m.rub \in {"rub_cyr", "rub"} \/ m.usd = "usd" \/ m.eur = "eur")}

\* str.upper() of what a pattern matched: the Cyrillic word stays Cyrillic,
\* a sign stays a sign
Upper(w) ==
  CASE w = "rub_cyr" -> "RUB_CYR"
    [] w = "rub"     -> "RUB"
    [] w = "usd"     -> "USD"
    [] w = "eur"     -> "EUR"
    [] OTHER         -> w

\* _extract_currency: the first pattern that matches gives group(1) when it
\* has a group and group(0) when it has none, in upper case; 'RUB' when no
\* pattern matches
extract_currency(m) ==
  IF m.pre # "none" THEN Upper(m.pre)
  ELSE IF m.rub # "none" THEN Upper(m.rub)
  ELSE IF m.usd # "none" THEN Upper(m.usd)
  ELSE IF m.eur # "none" THEN Upper(m.eur)
  ELSE "RUB"

\* ------------------------------------------------------- financial summary
\* _build_financial_summary(text)
BuildFinancialSummary ==
  /\ spc = "idle"
  /\ \E c \in {<<>>} \cup {<<v>> : v \in Captures} : capture' = c
  /\ \E m \in Markers : doc_currency' = m
  /\ summary' = NoKeys
  /\ spc' = "total"
  /\ UNCHANGED besideSum

\* the total: the captured text through _clean_number, when there is one
SetTotal ==
  /\ spc = "total"
  /\ summary' =
       IF capture = <<>> THEN summary
       ELSE With(summary, "total_with_vat", CleanNumber(capture[1]))
  /\ spc' = "currency"
  /\ UNCHANGED <<capture, doc_currency>>
  /\ UNCHANGED besideSum

\* the currency: what _extract_currency gives, in upper case, 'RUB' for
\* nothing; then the summary is returned
SetCurrency ==
  /\ spc = "currency"
  /\ \E currency \in {extract_currency(doc_currency)} :
       summary' = With(summary, "currency", Upper(currency))
  /\ spc' = "done"
  /\ UNCHANGED <<capture, doc_currency>>
  /\ UNCHANGED besideSum

NextSummary ==
  \/ BuildFinancialSummary
  \/ SetTotal
  \/ SetCurrency

SpecSummary == Init /\ [][NextSummary]_vars

\* ------------------------------------------------------- repeated extractions
\* A text, by what _extract_field finds in it for the seller: what the first
\* and the second pattern that match capture, and what the validator says of
\* a candidate of this text.
CallTexts ==
  [m1 : {NoMatch, Match(OOO_Rim)},
   m2 : {NoMatch, Match(IP_Rim)},
   vo : {Validated(TRUE, 8), Validated(FALSE, 3), Raised}]

\* _extract_field over the two patterns, with the attributes of self as they
\* are when the call is made
FieldOf(t, on) ==
  LET first == Iteration("seller", t.m1, NoMatch, on, t.vo)
      second == Iteration("seller", t.m2, NoMatch, on, t.vo)
  IN  IF first.verdict = "accepted" THEN Some(first.s)
      ELSE IF second.verdict = "accepted" THEN Some(second.s)
      ELSE None

\* Mutant of AfterCall: a validator that raises switches the validation off.
AfterCall_DisableOnRaise(on, t) == on /\ ~t.vo.raised

\* use_ml_validation after a call: extract_invoice_data and what it extractions
\* assign no attribute of self
AfterCall(on, t) == on

\* data_extractor.extract_invoice_data(text) on the one instance
CallExtract(t) ==
  /\ fpc = "ready"
  /\ Len(extractions) < MaxCalls
  /\ extractions' = Append(extractions, [text |-> t, out |-> FieldOf(t, Validating)])
  /\ use_ml_validation' = AfterCall(use_ml_validation, t)
  /\ UNCHANGED <<fpc, ml_classifier, field_name, pattern_idx, cand, nested,
                 vout, verdict, value>>
  /\ UNCHANGED besideCalls

NextCalls ==
  \/ \E req, imported, found, loaded \in BOOLEAN :
       Construct(req, imported, found, loaded)
  \/ \E t \in CallTexts : CallExtract(t)

SpecCalls == Init /\ [][NextCalls]_vars

\* ------------------------------------------------------- uploads
\* process_invoice as a coroutine on the event loop.  A step of the
\* coroutine runs on the loop thread, from one await to the next, and needs
\* the loop free; the file operations of aiofiles run on worker threads
\* between the steps.  process_image has the same shape.

\* file.filename.endswith('.pdf')
IsPdf(n) == n \in {"a.pdf", "b.pdf"}

\* The request arrives: rejected for its extension, or aiofiles.open is
\* submitted.
Receive(r, n) ==
  /\ upc[r] = "new" /\ loop = 0
  /\ fname' = [fname EXCEPT ![r] = n]
  /\ IF IsPdf(n)
       THEN /\ upc' = [upc EXCEPT ![r] = "opening"]
            /\ UNCHANGED answer
       ELSE /\ upc' = [upc EXCEPT ![r] = "rejected"]
            /\ answer' = [answer EXCEPT ![r] = "fail400"]
  /\ UNCHANGED <<files, inodes, handle, loop, got, health>>
  /\ UNCHANGED besideUploads

\* open(file_path, 'wb') on a worker thread: the file at the name is
\* truncated, or created when there is none.
WorkerOpen(r) ==
  /\ upc[r] = "opening"
  /\ LET n == fname[r]
         node == IF files[n] # 0 THEN files[n] ELSE r
     IN /\ files' = [files EXCEPT ![n] = node]
        /\ inodes' = [inodes EXCEPT ![node] = 0]
        /\ handle' = [handle EXCEPT ![r] = node]
  /\ upc' = [upc EXCEPT ![r] = "opened"]
  /\ UNCHANGED <<fname, loop, got, answer, health>>
  /\ UNCHANGED besideUploads

\* content = await file.read(); out_file.write(content) is submitted.
ReadUpload(r) ==
  /\ upc[r] = "opened" /\ loop = 0
  /\ upc' = [upc EXCEPT ![r] = "writing"]
  /\ UNCHANGED <<fname, files, inodes, handle, loop, got, answer, health>>
  /\ UNCHANGED besideUploads

\* The write on a worker thread: the bytes go to the inode the handle is
\* open on, linked or not.
WorkerWrite(r) ==
  /\ upc[r] = "writing"
  /\ inodes' = [inodes EXCEPT ![handle[r]] = r]
  /\ upc' = [upc EXCEPT ![r] = "written"]
  /\ UNCHANGED <<fname, files, handle, loop, got, answer, health>>
  /\ UNCHANGED besideUploads

\* The write raises (no space left): the exception leaves the handler before
\* its try block is entered.
WriteFails(r) ==
  /\ upc[r] = "writing"
  /\ upc' = [upc EXCEPT ![r] = "failed"]
  /\ answer' = [answer EXCEPT ![r] = "fail500"]
  /\ UNCHANGED <<fname, files, inodes, handle, loop, got, health>>
  /\ UNCHANGED besideUploads

\* The end of the async with block: the coroutine waits for the close.
CloseUpload(r) ==
  /\ upc[r] = "written" /\ loop = 0
  /\ upc' = [upc EXCEPT ![r] = "closed"]
  /\ UNCHANGED <<fname, files, inodes, handle, loop, got, answer, health>>
  /\ UNCHANGED besideUploads

\* The try block is entered: pdf_processor.extract_text(file_path) is
\* called on the loop thread and reads what is at the name now.
Acquire(r) ==
  /\ upc[r] = "closed" /\ loop = 0
  /\ loop' = r
  /\ got' = [got EXCEPT ![r] =
               IF files[fname[r]] = 0 THEN Missing
               ELSE Found(inodes[files[fname[r]]])]
  /\ upc' = [upc EXCEPT ![r] = "acquiring"]
  /\ UNCHANGED <<fname, files, inodes, handle, answer, health>>
  /\ UNCHANGED besideUploads

\* The responses the try block can end with, for what was read.
Answers(g) ==
  IF g.found /\ g.bytes # 0 THEN {"ok", "fail400", "fail500"}
  ELSE {"fail400", "fail500"}

\* Mutant of Finally: the file is removed on the success path only.
Finally_OnSuccess(fs, n, a) == IF a = "ok" THEN [fs EXCEPT ![n] = 0] ELSE fs

\* finally: if os.path.exists(file_path): os.remove(file_path)
Finally(fs, n, a) == [fs EXCEPT ![n] = 0]

\* The rest of the try block, the finally clause and the return, on the
\* loop thread without an await.
Respond(r, a) ==
  /\ upc[r] = "acquiring"
  /\ a \in Answers(got[r])
  /\ answer' = [answer EXCEPT ![r] = a]
  /\ files' = Finally(files, fname[r], a)
  /\ loop' = 0
  /\ upc' = [upc EXCEPT ![r] = "returned"]
  /\ UNCHANGED <<fname, inodes, handle, got, health>>
  /\ UNCHANGED besideUploads

\* A GET /health request arrives.
HealthArrives ==
  /\ health \in {"none", "served"}
  /\ health' = "pending"
  /\ UNCHANGED <<upc, fname, files, inodes, handle, loop, got, answer>>
  /\ UNCHANGED besideUploads

\* async def health(): the coroutine is run by the loop when it is free.
Health ==
  /\ health = "pending" /\ loop = 0
  /\ health' = "served"
  /\ UNCHANGED <<upc, fname, files, inodes, handle, loop, got, answer>>
  /\ UNCHANGED besideUploads

NextUploads ==
  \/ \E r \in Requests, n \in Names : Receive(r, n)
  \/ \E r \in Requests : WorkerOpen(r)
  \/ \E r \in Requests : ReadUpload(r)
  \/ \E r \in Requests : WorkerWrite(r)
  \/ \E r \in Requests : WriteFails(r)
  \/ \E r \in Requests : CloseUpload(r)
  \/ \E r \in Requests : Acquire(r)
  \/ \E r \in Requests, a \in {"ok", "fail400", "fail500"} : Respond(r, a)
  \/ HealthArrives
  \/ Health

SpecUploads == Init /\ [][NextUploads]_vars

\* ------------------------------------------------------- scheduler
\* NotificationScheduler.run_scheduler and the round it performs, with the
\* settings requests that reach the database meanwhile.

\* NotificationService.get_user_settings: the row is created, enabled, when
\* the user has none.
get_user_settings(u) ==
  IF settings[u].row THEN settings[u] ELSE Settings(1)

\* GET /settings/{user_id}
GetUserSettings(u) ==
  /\ ~settings[u].row
  /\ settings' = [settings EXCEPT ![u] = get_user_settings(u)]
  /\ UNCHANGED <<sched_pc, running, rounds, due, session, user_ids, upos, sent>>
  /\ UNCHANGED besideScheduler

\* NotificationService.toggle_notifications
ToggleNotifications(u) ==
  /\ settings' = [settings EXCEPT
                    ![u] = Settings(1 - get_user_settings(u).notifications_enabled)]
  /\ UNCHANGED <<sched_pc, running, rounds, due, session, user_ids, upos, sent>>
  /\ UNCHANGED besideScheduler

\* An invoice of the user comes into, or leaves, the days get_pending_invoices
\* looks at.
InvoiceDue(u) ==
  /\ due' = [due EXCEPT ![u] = ~due[u]]
  /\ UNCHANGED <<sched_pc, running, rounds, settings, session, user_ids, upos, sent>>
  /\ UNCHANGED besideScheduler

\* run_scheduler is called: self.running = True
RunScheduler ==
  /\ sched_pc = "new"
  /\ running' = TRUE
  /\ sched_pc' = "head"
  /\ UNCHANGED <<rounds, settings, due, session, user_ids, upos, sent>>
  /\ UNCHANGED besideScheduler

\* stop(): self.running = False
Stop ==
  /\ sched_pc # "new" /\ running
  /\ running' = FALSE
  /\ UNCHANGED <<sched_pc, rounds, settings, due, session, user_ids, upos, sent>>
  /\ UNCHANGED besideScheduler

\* while self.running: the sleep of 30 minutes starts, or the loop ends.
LoopHead ==
  /\ sched_pc = "head"
  /\ running => rounds < MaxRounds
  /\ sched_pc' = IF running THEN "sleeping" ELSE "returned"
  /\ UNCHANGED <<running, rounds, settings, due, session, user_ids, upos, sent>>
  /\ UNCHANGED besideScheduler

\* get_users_with_notifications_enabled: the users whose row has
\* notifications_enabled == 1
EnabledNow(u) == settings[u].row /\ settings[u].notifications_enabled = 1
get_users_with_notifications_enabled == SelectSeq([u \in Users |-> u], EnabledNow)

\* The sleep ends and check_and_send_notifications begins: the session is
\* opened and the list of users is read.
Wake ==
  /\ sched_pc = "sleeping"
  /\ sched_pc' = "round"
  /\ rounds' = rounds + 1
  /\ session' = "open"
  /\ user_ids' = get_users_with_notifications_enabled
  /\ upos' = 1
  /\ UNCHANGED <<running, settings, due, sent>>
  /\ UNCHANGED besideScheduler

\* for user_id in user_ids: the pending invoices are read, and the reminder
\* is sent when there are some.
Remind ==
  /\ sched_pc = "round" /\ upos <= Len(user_ids)
  /\ LET u == user_ids[upos]
     IN sent' = IF due[u]
                  THEN Reminder(u, settings[u].notifications_enabled, due[u])
                  ELSE sent
  /\ upos' = upos + 1
  /\ UNCHANGED <<sched_pc, running, rounds, settings, due, session, user_ids>>
  /\ UNCHANGED besideScheduler

\* The list is exhausted: finally db.close(), and back to the loop head.
EndRound ==
  /\ sched_pc = "round" /\ upos > Len(user_ids)
  /\ session' = "closed"
  /\ sched_pc' = "head"
  /\ UNCHANGED <<running, rounds, settings, due, user_ids, upos, sent>>
  /\ UNCHANGED besideScheduler

\* The round raises: finally db.close(), then `except Exception` of
\* run_scheduler and its sleep of a minute.
RoundRaises ==
  /\ sched_pc = "round"
  /\ session' = "closed"
  /\ sched_pc' = "backoff"
  /\ UNCHANGED <<running, rounds, settings, due, user_ids, upos, sent>>
  /\ UNCHANGED besideScheduler

\* The sleep of a minute ends.
BackoffEnds ==
  /\ sched_pc = "backoff"
  /\ sched_pc' = "head"
  /\ UNCHANGED <<running, rounds, settings, due, session, user_ids, upos, sent>>
  /\ UNCHANGED besideScheduler

NextScheduler ==
  \/ \E u \in Users : GetUserSettings(u)
  \/ \E u \in Users : ToggleNotifications(u)
  \/ \E u \in Users : InvoiceDue(u)
  \/ RunScheduler
  \/ Stop
  \/ LoopHead
  \/ Wake
  \/ Remind
  \/ EndRound
  \/ RoundRaises
  \/ BackoffEnds

SpecScheduler == Init /\ [][NextScheduler]_vars

\* The event loop runs a coroutine that is ready and fires a timer that is
\* due: every step of run_scheduler is taken when it stays possible.
SpecSchedulerFair ==
  /\ SpecScheduler
  /\ WF_vars(LoopHead)
  /\ WF_vars(Wake)
  /\ WF_vars(Remind)
  /\ WF_vars(EndRound)
  /\ WF_vars(BackoffEnds)

\* ======================================================= claims C1..C7
\* Positions of the log `s` whose element satisfies Test.
Positions(s, Test(_)) == { i \in 1..Len(s) : Test(s[i]) }

IsSorted(entries) ==
  \A i, j \in 1..Len(entries) : i < j => entries[i].page < entries[j].page

EntriesOf(entries, p) == { i \in 1..Len(entries) : entries[i].page = p }

\* A native pass has returned its page-by-page result.
PassReturned == ret_by \in Readers /\ pc # "extract_text"

\* The page's native text is taken as it is, and the page never went to OCR.
NativeKept(p) ==
  /\ \E i \in EntriesOf(text_out, p) : text_out[i] = Entry(p, "native", native_seen[p])
  /\ Cardinality(EntriesOf(text_out, p)) = 1
  /\ \A k \in 1..Len(ocr_pages) : ocr_pages[k].page # p

\* The page went to per-page OCR once, and what OCR gave stands at the page's
\* place (nothing, when OCR gave the empty string).
OcrMerged(p) ==
  /\ Cardinality({ k \in 1..Len(ocr_pages) : ocr_pages[k].page = p }) = 1
  /\ \A k \in 1..Len(ocr_pages) :
       ocr_pages[k].page = p =>
         IF ocr_pages[k].out.raw > 0
           THEN /\ Cardinality(EntriesOf(text_out, p)) = 1
                /\ \E i \in EntriesOf(text_out, p) :
                     text_out[i] = Entry(p, "ocr", ocr_pages[k].out)
           ELSE EntriesOf(text_out, p) = {}

\* C1: when a native reader's pass finishes without raising and its aggregate
\* exceeds 100, every page whose native text has trimmed length > 50 stands
\* verbatim in the returned text and was never given to per-page OCR; every
\* other page was given to per-page OCR, exactly it, and the OCR output stands
\* at that page's position; the pages are in ascending order.
C1_OcrFallbackTargeting ==
  PassReturned =>
    /\ Len(native_seen) = npages
    /\ IsSorted(text_out)
    /\ \A p \in 1..npages :
         IF native_seen[p].raw > 0 /\ native_seen[p].trim > 50
           THEN NativeKept(p)
           ELSE OcrMerged(p)

\* C1 witness: page 1 is native, page 2 is at the 50-character bar and its
\* OCR output was merged at page 2's position.
C1_Witness ==
  /\ ret_by = "pdfplumber" /\ pc = "got_text" /\ npages = 2
  /\ native_seen[1].trim > 50
  /\ native_seen[2].raw > 0 /\ native_seen[2].trim <= 50
  /\ Len(text_out) = 2 /\ text_out[1].src = "native" /\ text_out[2].src = "ocr"

\* A native pass is at its end: the next step decides between returning the
\* page-by-page result and the next strategy.
AtPassEnd ==
  pc = "extract_text" /\ stage \in Readers /\ ocr_pc = "idle" /\ page_num = npages + 1

OnlyOcr(entries) == \A i \in 1..Len(entries) : entries[i].src = "ocr"

\* C2 as stated: an aggregate under 100 leads to whole-document OCR, an
\* aggregate of 100 or more returns the page-by-page result.
C2_Original ==
  [][AtPassEnd =>
       IF total_text_length < 100
         THEN stage' = "full"
         ELSE pc' = "got_text" /\ text_out' = full_text]_vars

\* C2 amended: a pass whose aggregate is at most 100 is discarded and the next
\* strategy runs from empty lists (PyPDF2 after pdfplumber, whole-document OCR
\* after PyPDF2); a pass whose aggregate exceeds 100 is what is returned; the
\* whole-document OCR result holds no native-layer text.
C2_AggregateBar ==
  /\ [][AtPassEnd =>
          IF total_text_length > 100
            THEN pc' = "got_text" /\ text_out' = full_text /\ ret_by' = stage
            ELSE /\ pc' = "extract_text" /\ full_text' = <<>> /\ text_out' = text_out
                 /\ stage' = (IF stage = "pdfplumber" THEN "PyPDF2" ELSE "full")]_vars
  /\ [](stage = "full" => OnlyOcr(full_text))
  /\ [](ret_by = "full" => OnlyOcr(text_out))

\* C2 witness: both native passes stayed at or under the bar and the text
\* returned is the whole-document OCR of a two-page document.
C2_Witness ==
  ret_by = "full" /\ pc = "got_text" /\ Len(text_out) = 2 /\ OnlyOcr(text_out)

\* ------------------------------------------------------- OCR claims
Processed(c) == c.img = "processed"
Raw(c) == c.img = "raw"
Over50(c) == c.img = "processed" /\ ~c.raised /\ c.text.trim > 50
Under10(c) == c.raised \/ c.text.trim < 10
Under50(c) == c.raised \/ c.text.trim <= 50

OcrActive == ocr_pc \in {"loop", "fallback", "ret"}
LoopOver == ocr_pc \in {"fallback", "ret"}

\* C3: the configurations are called in the order 6, 11, 12 on the
\* preprocessed bitmap; the first result over 50 characters ends the calls (no
\* later configuration, no raw fallback) and is the routine's text; without
\* such a result all three are tried; a raising configuration leaves the
\* routine in its loop at the next configuration.
C3_PsmOrder ==
  OcrActive =>
    /\ \A i \in Positions(ocr_calls, Processed) :
         i <= 3 /\ ocr_calls[i].psm = <<6, 11, 12>>[i]
    /\ \A i \in Positions(ocr_calls, Raw) :
         i = Len(ocr_calls) /\ Cardinality(Positions(ocr_calls, Processed)) = 3
    /\ \A i \in Positions(ocr_calls, Over50) :
         i = Len(ocr_calls) /\ text = ocr_calls[i].text /\ LoopOver
    /\ LoopOver =>
         \/ Positions(ocr_calls, Over50) # {}
         \/ Cardinality(Positions(ocr_calls, Processed)) = 3
    /\ \A i \in 1..2 :
         (Len(ocr_calls) = i /\ ocr_calls[i].raised) =>
           ocr_pc = "loop" /\ PsmModes[psm_idx] = <<6, 11, 12>>[i + 1]

\* C3 witness: PSM 6 raised, PSM 11 gave more than 50 characters, and the
\* routine is about to return that text.
C3_Witness ==
  /\ ocr_pc = "ret" /\ Len(ocr_calls) = 2
  /\ ocr_calls[1].raised /\ Over50(ocr_calls[2]) /\ text = ocr_calls[2].text

\* The text the PSM loop leaves: the last configuration that did not raise.
RECURSIVE LoopText(_)
LoopText(calls) ==
  IF calls = <<>> THEN EmptyText
  ELSE LET c == calls[Len(calls)]
       IN IF c.img = "processed" /\ ~c.raised THEN c.text
          ELSE LoopText(SubSeq(calls, 1, Len(calls) - 1))

\* C4 as stated: when all three configurations fail the 50-character bar,
\* the original bitmap is recognized exactly once with PSM 6.
C4_Original ==
  (ocr_pc = "ret" /\ Cardinality(Positions(ocr_calls, Processed)) = 3
     /\ \A i \in Positions(ocr_calls, Processed) : Under50(ocr_calls[i]))
    => /\ Cardinality(Positions(ocr_calls, Raw)) = 1
       /\ \A i \in Positions(ocr_calls, Raw) : ocr_calls[i].psm = 6

\* C4 amended: the original bitmap is recognized, once and with PSM 6, exactly
\* when the text the three configurations leave is empty or has trimmed
\* length under 10.
C4_RawFallback ==
  ocr_pc = "ret" =>
    /\ Cardinality(Positions(ocr_calls, Raw)) =
         (IF LoopText(ocr_calls).raw = 0 \/ LoopText(ocr_calls).trim < 10 THEN 1 ELSE 0)
    /\ \A i \in Positions(ocr_calls, Raw) : ocr_calls[i].psm = 6

\* C4 witness: the three configurations gave 50, 50 and 9 characters and the
\* original bitmap was then recognized.
C4_Witness ==
  /\ ocr_pc = "ret" /\ Len(ocr_calls) = 4
  /\ ocr_calls[1].text.trim = 50 /\ ~ocr_calls[1].raised
  /\ ocr_calls[3].text.trim = 9 /\ ~ocr_calls[3].raised
  /\ Raw(ocr_calls[4])

\* C5: when the three configurations and the raw fallback all yield under 10
\* characters, the routine returns the empty string.
C5_ShortIsEmpty ==
  (ocr_pc = "ret" /\ Len(ocr_calls) = 4 /\ \A i \in 1..4 : Under10(ocr_calls[i]))
    => OcrResult(text) = EmptyText

\* The trimmed characters of the page texts of a result, headers aside.
RECURSIVE ContentLen(_)
ContentLen(entries) ==
  IF entries = <<>> THEN 0
  ELSE entries[1].text.trim + ContentLen(Tail(entries))

\* C6: an image whose OCR text has trimmed length under 10 gets the failure
\* response; no field extraction runs and no Invoice row is added.
C6_ImageFailure ==
  (ret_by = "image" /\ (ImageText.raw = 0 \/ ImageText.trim < 10)) =>
    /\ pc \in {"got_text", "done"}
    /\ pc = "done" => response = "fail400"
    /\ ~extracted
    /\ db = <<>>

\* C6 witness: the image gave 9 characters and the request ended in failure.
C6_Witness ==
  ret_by = "image" /\ ImageText.trim = 9 /\ pc = "done" /\ response = "fail400"

\* C7: a PDF whose final text is empty, or holds under 10 characters besides
\* the page headers, gets the failure response; no record is built or kept.
C7_PdfFailure ==
  (kind = "pdf" /\ ret_by # "none" /\ ContentLen(text_out) < 10) =>
    /\ pc \in {"got_text", "done"}
    /\ pc = "done" => response = "fail400"
    /\ ~extracted
    /\ db = <<>>

\* ======================================================= claims C8..C10
Returned == fpc = "returned"
Scanning == fpc = "scan"
Evaluated == verdict # "none"

\* The capture c of field f after the pipeline of the field:
\* normalization, and for a party the stop-word cut and the cleanup.
PipedOf(f, c) ==
  IF f \in Parties THEN Strip(Cleaned(Normalized(f, c.s))) ELSE Normalized(f, c.s)

\* The same for the last pattern evaluated.
Piped == PipedOf(field_name, cand)

\* The validator said implausible, with a confidence under 0.5.
SaidImplausible ==
  vout.called /\ ~vout.raised /\ ~vout.is_valid /\ vout.confidence < 5

\* The value a pattern's capture c leads to: the piped capture, or for a
\* party whose piped capture is degenerate, the nested list's match n.
CandidateOf(f, c, n) == IF n.hit THEN Strip(n.s) ELSE PipedOf(f, c)

\* The same for the last pattern evaluated.
Candidate == CandidateOf(field_name, cand, nested)

\* The candidate of a pattern did not survive: nothing found, a degenerate
\* capture or value, or the validator's implausible under 0.5.
FailedOf(f, c, n, vo) ==
  \/ ~c.hit
  \/ f = "invoice_number" /\ Len(Strip(c.s)) > 10
  \/ f \in Parties /\ (Len(Strip(c.s)) < 3 \/ Len(CandidateOf(f, c, n)) < 3)
  \/ vo.called /\ ~vo.raised /\ ~vo.is_valid /\ vo.confidence < 5

\* The loop moves by one pattern at a time from the first, and stops at
\* the pattern whose candidate it returns.
C8_InOrder ==
  /\ (~Scanning /\ Scanning') => pattern_idx' = 1
  /\ (Scanning /\ Scanning') =>
       /\ pattern_idx' = pattern_idx + 1
       /\ FailedOf(field_name', cand', nested', vout')
  /\ (Scanning /\ Returned') =>
       /\ pattern_idx' = pattern_idx
       /\ (value'.some => ~FailedOf(field_name', cand', nested', vout'))
       /\ (~value'.some => UNCHANGED <<cand, nested, vout, verdict>>)
  /\ (Returned /\ Returned') => UNCHANGED <<pattern_idx, cand, value>>

\* C8 (as stated): for every field, the patterns are evaluated strictly in
\* list order and the value returned is the post-processed capture of the
\* lowest-index pattern whose candidate survives; it never comes from a
\* pattern outside the field's ordered list, and None is returned only when
\* no candidate survives.
C8_Original ==
  Returned =>
    IF value.some
      THEN /\ pattern_idx \in 1..Len(patterns(field_name))
           /\ cand \in Searches(field_name, pattern_idx) /\ cand.hit
           /\ ~nested.hit
           /\ value.s = Piped
      ELSE pattern_idx = Len(patterns(field_name)) + 1

\* C8 (amended): the patterns are evaluated strictly in list order, the
\* first candidate that survives is returned and no later pattern is
\* evaluated; the value is the post-processed capture of that pattern,
\* except that for seller and buyer a capture left degenerate by the
\* post-processing is replaced by the first match of the field's nested
\* pattern list, stripped only.  None is returned only when the list is
\* exhausted.
C8_FirstSurvivor ==
  /\ [][C8_InOrder]_vars
  /\ [](Returned =>
          IF value.some
            THEN /\ pattern_idx \in 1..Len(patterns(field_name))
                 /\ cand \in Searches(field_name, pattern_idx) /\ cand.hit
                 /\ nested.hit =>
                      /\ field_name \in Parties
                      /\ NeedsRescue(Cleaned(Normalized(field_name, cand.s)))
                      /\ nested \in NestedSearches(field_name)
                 /\ value.s = Candidate
            ELSE pattern_idx = Len(patterns(field_name)) + 1)

\* A seller is returned from the nested list, at a pattern that is not the
\* first of the list.
C8_Witness ==
  /\ Returned /\ value.some /\ field_name = "seller"
  /\ pattern_idx > 1 /\ nested.hit
  /\ value.s = Rim_Rim

\* C9: a degenerate candidate is never returned and sends the loop to the
\* next pattern: a returned seller or buyer has at least 3 characters and
\* is neither one letter nor all digits; a returned invoice number has at
\* most 10 characters.
C9_NoDegenerate ==
  /\ [](Returned /\ value.some /\ field_name \in Parties =>
          /\ Len(value.s) >= 3
          /\ ~(Len(value.s) = 1 /\ IsLetter(value.s[1]))
          /\ \E i \in 1..Len(value.s) : ~IsDigit(value.s[i]))
  /\ [](Returned /\ value.some /\ field_name = "invoice_number" =>
          Len(value.s) <= 10)
  /\ [][Scanning /\ verdict' = "degenerate" /\ cand' # cand =>
          /\ Scanning' /\ pattern_idx' = pattern_idx + 1
          /\ value' = None]_vars

\* The capture of a party pattern is cut to two characters at a stop word,
\* the nested list finds nothing, and the loop is at the next pattern.
C9_Witness ==
  /\ Scanning /\ verdict = "degenerate" /\ field_name \in Parties
  /\ cand.hit /\ ~nested.hit /\ Len(Piped) = 2
  /\ pattern_idx > 1

\* C10: a surviving candidate is rejected by the validator exactly when a
\* validator is configured and answers implausible with confidence under
\* 0.5; a plausible answer, a confidence of 0.5 or more, a raising
\* validator and a missing validator all accept, so the outcome without a
\* validator is the outcome with a validator that always accepts.
C10_FailOpen ==
  Evaluated =>
    /\ verdict = "implausible" <=> SaidImplausible
    /\ vout.called <=>
         (use_ml_validation /\ ml_classifier /\ verdict \in {"accepted", "implausible"})
    /\ use_ml_validation => ml_classifier
    /\ \A c \in {3, 5, 8} :
         LET without == Iteration(field_name, cand, nested, FALSE, NotCalled)
             always == Iteration(field_name, cand, nested, TRUE, Validated(TRUE, c))
         IN /\ without.verdict = always.verdict /\ without.s = always.s
            /\ ~Validating => verdict = always.verdict
            /\ (~Validating /\ Returned /\ value.some) => value.s = always.s

\* The validator answered implausible with confidence 0.3 and the loop is
\* at the next pattern.
C10_Witness ==
  /\ Scanning /\ verdict = "implausible"
  /\ vout = Validated(FALSE, 3) /\ pattern_idx > 1

\* ======================================================= claims C11..C12
\* The match the returned value was taken from.
Source == IF nested.hit THEN nested ELSE cand

\* C11: in a text with a supplier block followed by a buyer block, the
\* seller returned is never taken from behind the buyer's anchor keyword
\* (the buyer anchor never stands between the seller anchor and the
\* captured span), and symmetrically for the buyer.
C11_NoBleed ==
  (Returned /\ value.some /\ field_name \in Parties) => ~Source.across

\* The token w stands at 0-based index i of the name v, case ignored.
TokenAt(v, w, i) ==
  i + Len(w) <= Len(v) /\ SubSeq(Lower(v), i + 1, i + Len(w)) = Lower(w)

\* The indices at which some token of the disallow-list stands in v.
TokenIndices(v) ==
  { i \in 0..Len(v) : \E k \in 1..Len(stop_words) : TokenAt(v, stop_words[k], i) }

\* The indices at which a token of the list has its first occurrence in v,
\* the start of the name left out.
FirstInnerIndices(v) ==
  { i \in 1..Len(v) :
      \E k \in 1..Len(stop_words) :
        /\ TokenAt(v, stop_words[k], i)
        /\ \A j \in 0..(i - 1) : ~TokenAt(v, stop_words[k], j) }

\* v cut before index i, stripped, with one quote appended when the cut
\* leaves an odd number of quotes.
CutBefore(v, i) ==
  LET head == Strip(SubSeq(v, 1, i))
  IN IF Count(head, Q) % 2 = 1 THEN head \o <<Q>> ELSE head

\* A party pattern found a capture that passed the checks on the raw
\* capture: the stop-word cut was applied to its normalized form.
CutApplied ==
  Evaluated /\ field_name \in Parties /\ cand.hit /\ ~Degenerate(cand.s)

Name == Normalized(field_name, cand.s)

\* The name returned when the cut name is kept.
KeptAfterCut(t) == Strip(DropTrailingCommas(DropTrailingLatin(t)))

\* C12 (as stated): a captured seller or buyer name that contains a token
\* of the disallow-list is cut immediately before the earliest occurrence
\* of any token, a closing quote is appended when the cut leaves an odd
\* number of quotes, and every truncated name has an even number of quotes.
C12_Original ==
  (CutApplied /\ TokenIndices(Name) # {}) =>
    /\ Truncate(Name) = CutBefore(Name, SetMin(TokenIndices(Name)))
    /\ Count(Truncate(Name), Q) % 2 = 0

\* C12 (amended): the name is cut before the earliest first occurrence of
\* a token that is not at the very start of the name; a token standing at
\* the start is no cut point and hides its later occurrences.  A closing
\* quote is appended when the cut leaves an odd number of quotes, so every
\* truncated name has an even number of quotes; a name without such an
\* occurrence is left as it is.
C12_CutAtToken ==
  CutApplied =>
    LET cut == IF FirstInnerIndices(Name) = {} THEN Name
               ELSE CutBefore(Name, SetMin(FirstInnerIndices(Name)))
    IN /\ Truncate(Name) = cut
       /\ FirstInnerIndices(Name) # {} => Count(Truncate(Name), Q) % 2 = 0
       /\ (Returned /\ value.some /\ ~nested.hit) => value.s = KeptAfterCut(cut)

\* A quoted seller name is cut inside its quotes and returned with the
\* quote closed.
C12_Witness ==
  /\ Returned /\ value.some /\ field_name = "seller"
  /\ cand.s = OOO_Rim_INN /\ ~nested.hit
  /\ value.s = OOO_Rim

\* ======================================================= claim C13
\* The value is None, an empty dictionary or an empty list, or holds such a
\* member at some depth.
RECURSIVE Hollow(_)
Hollow(v) ==
  CASE v.t = "None" -> TRUE
    [] v.t = "dict" -> DOMAIN v.d = {} \/ \E k \in DOMAIN v.d : Hollow(v.d[k])
    [] v.t = "list" -> v.l = <<>> \/ \E i \in 1..Len(v.l) : Hollow(v.l[i])
    [] OTHER -> FALSE

\* C13: the record returned by extract_invoice_data has no member that is
\* present but empty, at any depth: no key maps to None, to an empty
\* dictionary or to an empty list, and a section for which nothing was
\* extracted is absent.
C13_NoEmptyMember ==
  rec_pc = "returned" => \A k \in DOMAIN record : ~Hollow(record[k])

\* ======================================================= claims C14..C20

\* the scan is at a line
Visiting == ipc = "scan" /\ cursor \in 1..Len(lines)

\* C14: no item is emitted while the scan is before the table; the scan
\* enters the table exactly on a line that carries a priority section
\* keyword, or a secondary keyword together with a column header word, and
\* the line that triggers the transition yields no item.
C14_StartOfTable ==
  /\ [][/\ (Visiting /\ ~in_items_section) =>
             /\ items' = items
             /\ in_items_section' <=>
                  \/ lines[cursor] \in items_start_keywords_priority
                  \/ /\ lines[cursor] \in items_start_keywords_secondary
                     /\ HeaderToken(lines[cursor])
        /\ (~in_items_section /\ in_items_section') => Visiting]_vars
  /\ [](~in_items_section => items = <<>>)

\* a lone secondary keyword did not open the section, the column header
\* after it did, and no item is there
C14_Witness ==
  /\ ipc = "scan" /\ cursor = 3
  /\ lines[1] = "descr" /\ lines[2] = "colhead"
  /\ in_items_section /\ items = <<>>

\* C15: inside the table, a step at a subtotal, VAT-summary or grand-total
\* line, with or without its amount on the same line, ends the scan and
\* emits nothing, so that no later line contributes an item.
C15_TotalEndsTable ==
  [][(Visiting /\ in_items_section /\ TotalStart(lines[cursor])) =>
       (ipc' = "done" /\ items' = items)]_vars

\* the grammar that builds the item of a line when the grammars are tried in
\* the order full, no-terms, simple
FirstInOrder(c) ==
  IF item_pattern(c) # {} THEN {"full"}
  ELSE IF item_pattern_no_terms(c) # {} THEN {"no_terms"}
  ELSE IF alt_pattern(c) \/ simple_item_pattern(c) THEN {"alt", "simple"}
  ELSE {"loose", "fallback", "heuristic", "minimal"}

\* C16: the row grammars are evaluated in the order full (9 fields),
\* no-terms (8), simple (6), loose, heuristic fallback, minimal fallback, and
\* the first that matches builds the item: a row that matches both the full
\* and the simple grammar is parsed by the full one.
C16_FullBeforeSimple ==
  [][(Visiting /\ Len(items') > Len(items)) =>
       items'[Len(items')].by \in FirstInOrder(combined_line(lines, cursor))]_vars

\* the line alone satisfies one of the row grammars
CompleteRow(c) ==
  \/ alt_pattern(c) \/ simple_item_pattern(c)
  \/ item_pattern(c) # {} \/ item_pattern_no_terms(c) # {}

\* C17: a following line is concatenated to a row only when the grammar
\* failed to find the trailing amounts of the row on its own line; a row
\* whose own line already satisfies a grammar is matched without being
\* merged.
C17_CompleteRowNotMerged ==
  [][(Visiting /\ Len(items') > Len(items)
        /\ CompleteRow(Tokens(lines[cursor]))) =>
       items'[Len(items')].took = 0]_vars

\* C18: after a row has been parsed from merged lines the cursor advances
\* past the lines that were merged, so that a consumed continuation line is
\* not visited again and cannot contribute a second item.
C18_CursorPastMerged ==
  [][(Visiting /\ Len(items') > Len(items)) =>
       cursor' = cursor + 1 + items'[Len(items')].took]_vars

\* line k lies inside the table: after a line that opened the section and
\* before any end marker met inside it
Opened(k) == \E j \in 1..k - 1 : OpensSection(lines[j])
Ended(k) ==
  \E j \in 1..k - 1 : Opened(j) /\ lines[j] \in items_end_keywords
CandidateRow(k) ==
  /\ k \in 1..Len(lines)
  /\ Opened(k) /\ ~Ended(k)
  /\ Row(lines[k])
  /\ lines[k] \notin items_end_keywords /\ ~SkippedTotal(lines[k])
Matches(k) == Parse(Tokens(lines[k]), combined_line(lines, k)) # <<>>

\* C19: a candidate row that matches no grammar is dropped: the step emits
\* nothing, raises nothing and leaves the scan running at the next line; the
\* scan ends only at an end marker or after the last line, and once it has
\* ended every row before the end marker that matches a grammar has its
\* item.
C19_BadRowDropped ==
  /\ [][/\ (Visiting /\ CandidateRow(cursor) /\ ~Matches(cursor)) =>
             (items' = items /\ ipc' = "scan" /\ cursor' = cursor + 1)
        /\ (ipc = "scan" /\ ipc' # "scan") =>
             \/ cursor > Len(lines)
             \/ /\ Opened(cursor) /\ ~Ended(cursor)
                /\ lines[cursor] \in items_end_keywords]_vars
  /\ [](ipc \in {"done", "returned"} =>
          \A k \in 1..Len(lines) :
            (CandidateRow(k) /\ Matches(k)) =>
              \E n \in 1..Len(items) : items[n].at = k)

\* a row that matches nothing was passed and the row after it has its item
C19_Witness ==
  /\ ipc = "done"
  /\ \E k \in 2..Len(lines) :
       /\ CandidateRow(k - 1) /\ ~Matches(k - 1)
       /\ CandidateRow(k) /\ Matches(k)
       /\ \E n \in 1..Len(items) : items[n].at = k

\* the document is a table of n rows of the eight-field grammar: a line that
\* opens the section at place h, nothing opening it before, the n rows right
\* after it, and then the end of the text or an end marker
EightFieldRow(t) ==
  /\ item_pattern_no_terms(Tokens(t)) # {}
  /\ item_pattern(Tokens(t)) = {}
  /\ ~alt_pattern(Tokens(t)) /\ ~simple_item_pattern(Tokens(t))
TableOf(h, n) ==
  /\ h >= 1 /\ n >= 1 /\ h + n <= Len(lines)
  /\ OpensSection(lines[h])
  /\ \A j \in 1..h - 1 : ~OpensSection(lines[j])
  /\ \A k \in h + 1..h + n : EightFieldRow(lines[k])
  /\ h + n = Len(lines) \/ lines[h + n + 1] \in items_end_keywords

\* C20: for a table of N consecutive rows that each match the eight-field
\* no-terms grammar, line_items holds exactly N entries in the order of the
\* document, the line_number of each is the index that opens its row, and
\* every numeric member is a number parsed from the row.
C20_EightFieldTable ==
  ipc = "returned" =>
    \A h \in 1..Len(lines) : \A n \in 1..Len(lines) :
      TableOf(h, n) =>
        /\ Len(line_items) = n
        /\ \A k \in 1..n :
             /\ line_items[k].line_number = <<"row", h + k>>
             /\ line_items[k].numbers = [m \in NumericKeys |-> "float"]

\* a table of two rows has been structured
C20_Witness ==
  /\ ipc = "returned"
  /\ TableOf(1, 2)
  /\ Len(line_items) = 2

\* ======================================================= claims C21..C30

\* the amount a captured text writes: its digits, the last two of them the
\* decimals
OnlyDigits(v) == SelectSeq(v, IsDigit)
Written(v) ==
  LET d == OnlyDigits(v)
  IN  Number(SubSeq(d, 1, Len(d) - 2), SubSeq(d, Len(d) - 1, Len(d)))

\* C21: every captured amount stored in the record has been normalized
\* (thousands separators and interior spaces removed, decimal comma turned
\* into a point) before it is parsed, so that the stored number equals the
\* amount written in the document.
C21_ValueAsWritten ==
  (spc \in {"currency", "done"} /\ capture # <<>>) =>
    summary["total_with_vat"] = Written(capture[1])

\* C27: the currency of the financial summary is always present and always
\* one of the codes RUB, USD, EUR.
C27_KnownCurrency ==
  spc = "done" =>
    /\ "currency" \in DOMAIN summary
    /\ summary["currency"] \in {"RUB", "USD", "EUR"}

\* C22: two calls of extract_invoice_data with the same text on the same
\* instance give the same output, whatever calls were made between them, and
\* no call changes the state of the instance.
C22_Idempotent ==
  /\ [](\A a, b \in 1..Len(extractions) :
         extractions[a].text = extractions[b].text => extractions[a].out = extractions[b].out)
  /\ [][Len(extractions') > Len(extractions) =>
         /\ use_ml_validation' = use_ml_validation
         /\ ml_classifier' = ml_classifier]_vars

\* with the validator in use, a text it rejects was extracted twice with a
\* text on which it raises in between
C22_Witness ==
  /\ Validating
  /\ Len(extractions) = 3
  /\ extractions[1].text = extractions[3].text
  /\ extractions[2].text # extractions[1].text
  /\ extractions[2].text.vo = Raised
  /\ extractions[1].text.vo = Validated(FALSE, 3)
  /\ extractions[1].text.m1.hit

\* C24: an error raised inside a section builder does not propagate out of
\* extract_invoice_data: no call ends with the exception, the call goes on
\* to return a record.
C24_ErrorContained == rec_pc # "raised"

\* the member of a section of the record, None when the record has no such
\* section or the section no such member
Member(sd, section, k) ==
  IF section \in DOMAIN sd /\ sd[section].t = "dict" /\ k \in DOMAIN sd[section].d
    THEN sd[section].d[k]
    ELSE PyNone

\* C26: the Invoice row persisted for a record holds, in invoice_number,
\* date, seller, buyer and total_amount, the values the record has in
\* invoice.number, invoice.date, supplier.company_name,
\* customer.company_name and the total of the financial summary, whenever
\* the record has them.
C26_RowHoldsRecord ==
  (rec_pc = "saved" /\ invoice # NoKeys) =>
    /\ Member(record, "invoice", "number") # PyNone =>
         invoice["invoice_number"] = Member(record, "invoice", "number")
    /\ Member(record, "invoice", "date") # PyNone =>
         invoice["date"] = Member(record, "invoice", "date")
    /\ Member(record, "supplier", "company_name") # PyNone =>
         invoice["seller"] = Member(record, "supplier", "company_name")
    /\ Member(record, "customer", "company_name") # PyNone =>
         invoice["buyer"] = Member(record, "customer", "company_name")
    /\ Member(record, "financial_summary", "total_with_vat") # PyNone =>
         invoice["total_amount"] = Member(record, "financial_summary", "total_with_vat")

\* the request is between the creation of its file and its return
Using(r) == upc[r] \in {"opened", "writing", "written", "closed", "acquiring"}

\* C23: two concurrent upload requests share no mutable state, also when
\* they carry the same filename: a request that has written its file finds
\* it at its path with its own bytes until it has read it, and what a request
\* extracts from is its own bytes.
C23_OwnBytes ==
  \A r \in Requests :
    /\ upc[r] \in {"written", "closed"} =>
         files[fname[r]] # 0 /\ inodes[files[fname[r]]] = r
    /\ got[r].read => got[r] = Found(r)

\* C25: while the acquisition and extraction of one request is in progress,
\* a pending health request can be scheduled and complete.
C25_HealthNotBlocked ==
  (health = "pending" /\ \E r \in Requests : upc[r] = "acquiring") => ENABLED Health

\* C30: a request that has written its file leaves no file at its path
\* when it returns, whatever response it returns with; a request rejected
\* for its extension writes no file.
C30_FileRemoved ==
  /\ [][\A r \in Requests :
          (upc[r] = "acquiring" /\ upc'[r] = "returned") => files'[fname[r]] = 0]_vars
  /\ [][\A r \in Requests :
          upc'[r] = "rejected" /\ upc[r] # "rejected" =>
            files' = files /\ inodes' = inodes]_vars
  /\ [](\A r \in Requests : upc[r] = "rejected" => handle[r] = 0)

\* a request returned with an error response after it had written its file,
\* and another was rejected for its extension
C30_Witness ==
  \E r, q \in Requests :
    /\ upc[r] = "returned" /\ answer[r] = "fail500" /\ got[r] = Found(r)
    /\ upc[q] = "rejected"

\* stop() has been called on the running scheduler
Stopped == sched_pc # "new" /\ ~running

\* C28: once stop() has been called on a running scheduler no further round
\* is performed and run_scheduler eventually returns; the loop ends only at
\* its head with the scheduler stopped, never by an exception of a round.
C28_StopEndsRounds ==
  /\ [][Stopped => rounds' = rounds]_vars
  /\ [][(sched_pc # "returned" /\ sched_pc' = "returned") =>
         (sched_pc = "head" /\ ~running)]_vars
  /\ (Stopped ~> sched_pc = "returned")

\* C29: a reminder goes only to a user whose notifications_enabled is 1 and
\* who has a pending invoice; notifications_enabled is always 0 or 1; the
\* session a round opened is closed when the round is left.
C29_RemindersOnlyEnabled ==
  /\ sent # NoReminder => sent.notifications_enabled = 1 /\ sent.pending
  /\ \A u \in Users : settings[u].notifications_enabled \in {0, 1}
  /\ sched_pc # "round" => session # "open"

====
